---- MODULE Spec2Model ----
(***************************************************************************)
(* Model of the EDNA2 auto-processing controller (Edna2ProcTask.run) and   *)
(* of its two policies, getResCutoff and if_anomalous_signal.              *)
(*                                                                         *)
(* Resolutions, correlation values and thresholds are floats in the code;  *)
(* only their order matters, so they are modelled as integers.  A          *)
(* threshold of 1 stands for the code's default threshold 1.0 and the      *)
(* value 0 for the code's initial cc_rcr = 0.0.                            *)
(* Python's None is the empty sequence, a value x is <<x>>.                *)
(***************************************************************************)
EXTENDS Integers, Sequences, FiniteSets, TLC

\* ------------------------------------------------------------------ bounds
\* longest list of completeness entries given to getResCutoff
MaxLen == 3
\* resolution values are 1..MaxRes
MaxRes == 3
\* longest aimless log, in lines
MaxLines == 3
\* correlation values found in a log are 0..MaxCC
MaxCC == 2
\* thresholds given to if_anomalous_signal are 0..MaxThreshold
MaxThreshold == 2

None == << >>
Some(x) == << x >>

\* the controller starts indexing only with at least this many images
MinImages == 8
\* image numbers a request or the tracking service can give as start: 1..MaxStart
MaxStart == 2
\* stages and tracking calls that may go wrong in one run
MaxFaults == 1

VARIABLES
    \* ---- getResCutoff called on its own
    entries,        \* the completeness entries given to getResCutoff
    resCalled,      \* getResCutoff has returned
    resCutoff,      \* what it returned
    \* ---- if_anomalous_signal called on its own
    aimlessLog,     \* the aimless log file
    threshold,      \* the threshold argument
    anomCalled,     \* if_anomalous_signal has finished
    anomOut,        \* [ret, raised]: the value returned, or an exception
    \* ---- Edna2ProcTask.run
    pc,             \* where run() stands
    onlineAutoProcessing, \* inData["onlineAutoProcessing"]
    hasDataCollectionId,  \* inData["dataCollectionId"] is not None
    anomalous,      \* inData["anomalous"]
    dataset,        \* number of images the master file describes
    imageNoStart,   \* self.imageNoStart, 0 for None
    imageNoEnd,     \* self.imageNoEnd, 0 for None
    status,         \* of every stage: idle, running, or how it ended
    joined,         \* the stages run() has joined
    reads,          \* the stages whose outData run() has read
    idsAssigned,    \* the four id attributes exist (lines 295-298 were run)
    integrationIdAnom,   \* "None" or "id" (programIdAnom comes with it)
    integrationIdNoAnom, \* "None" or "id" (programIdNoAnom comes with it)
    integrationId,  \* self.integrationId: "unset", "None", "anom", "noanom"
    isFailure,      \* self._dictInOut["isFailure"]
    errorLog,       \* the last logger.error of run()
    stoppedAt,      \* where run() stood when it returned or raised
    ispybLog,       \* status events sent to the tracking service, in order
    trackCalls,     \* kinds of tracking-service calls made so far
    markFailed,     \* per handle, number of setIspybToFailed calls
    faults,         \* number of things that went wrong so far
    completenessEntries, \* self.completenessEntries
    firstResCutoff,      \* self.firstResCutoff
    anomResCutoff,       \* self.anomResCutoff
    noAnomResCutoff,     \* self.noAnomResCutoff
    highAnomSignal, \* outData["HighAnomSignal"]: "unset", "True", "False"
    outData,        \* the branch results run() has put into outData
    rerunPasses,    \* number of times the rerun group was started
    taskInData,     \* what each task of the two branches was created with
    \* ---- AutoPROCExecTask.run choosing its directory, several at a time
    dirs,           \* suffixes k for which <base>/AutoPROCExec_k is a directory
    alloc,          \* per caller: where it stands, its autoPROCExecDir, inc_x
    \* ---- MAXIVAutoProcessingTask.run
    maxiv,          \* its request, its position, its tasks and its result
    \* ---- UtilsPDB.fetchPdbFileFromAccessionCode
    pdb,            \* its arguments, its position, the process and the files
    \* ---- Xia2DIALSTask.run
    xia2,           \* its request, its position, its handle and its events
    \* ---- AutoPROCTask.run and FastdpTask.run, from the tool to the result
    pipe            \* the task, its handles, the tool's files and the result

resVars == << entries, resCalled, resCutoff >>
anomVars == << aimlessLog, threshold, anomCalled, anomOut >>
allocVars == << dirs, alloc >>
\* the state of what is checked on its own, outside Edna2ProcTask.run
policyVars == << resVars, anomVars, allocVars, maxiv, pdb, xia2, pipe >>
reqVars == << onlineAutoProcessing, hasDataCollectionId, anomalous, dataset >>
rangeVars == << imageNoStart, imageNoEnd >>
stageVars == << status, joined, reads >>
idVars == << idsAssigned, integrationIdAnom, integrationIdNoAnom, integrationId >>
failVars == << isFailure, errorLog, stoppedAt >>
trackVars == << ispybLog, trackCalls, markFailed >>
cutoffVars == << completenessEntries, firstResCutoff, anomResCutoff,
                 noAnomResCutoff, highAnomSignal, outData >>
ctlVars == << pc, reqVars, rangeVars, stageVars, idVars, failVars, trackVars,
              faults, cutoffVars, rerunPasses, taskInData >>
vars == << resVars, anomVars, allocVars, maxiv, pdb, xia2, pipe, ctlVars >>

\* =================================================== getResCutoff (1023-1028)
CompletenessEntry == [res : 1..MaxRes, include_res_based_on_cc : BOOLEAN]

EntryLists == UNION { [1..n -> CompletenessEntry] : n \in 0..MaxLen }

\* [x['res'] for x in completeness_entries if x['include_res_based_on_cc']]
RECURSIVE FlaggedRes(_)
FlaggedRes(es) ==
    IF es = << >> THEN << >>
    ELSE IF Head(es).include_res_based_on_cc
         THEN << Head(es).res >> \o FlaggedRes(Tail(es))
         ELSE FlaggedRes(Tail(es))

\* Python's min over a non-empty list: the first smallest element
RECURSIVE PyMin(_)
PyMin(s) ==
    IF Len(s) = 1 THEN s[1]
    ELSE LET m == PyMin(Tail(s)) IN IF s[1] <= m THEN s[1] ELSE m

\* a cutoff that looks at every entry, flagged or not
getResCutoff_ignoresFlag(es) ==
    IF es = << >> THEN None ELSE Some(PyMin([i \in 1..Len(es) |-> es[i].res]))

\* a cutoff that falls back to a numeric default when nothing qualifies
getResCutoff_numericDefault(es) ==
    LET c == FlaggedRes(es) IN IF c = << >> THEN Some(0) ELSE Some(PyMin(c))

\* min([...], default=None)
getResCutoff(es) ==
    LET c == FlaggedRes(es) IN IF c = << >> THEN None ELSE Some(PyMin(c))

InitRes ==
    /\ entries \in EntryLists
    /\ resCalled = FALSE
    /\ resCutoff = None

CallGetResCutoff ==
    /\ ~resCalled
    /\ resCalled' = TRUE
    /\ resCutoff' = getResCutoff(entries)
    /\ UNCHANGED entries

\* ============================================ if_anomalous_signal (1097-1114)
\* A line of the log, as far as the code looks at it: whether it holds the
\* table's title, whether it holds the word "Overall", and what float() makes
\* of its fourth field: <<v>>, or << >> when the field is missing or no number.
LogLine == [table : BOOLEAN, overall : BOOLEAN,
            f3 : {None} \cup { Some(v) : v \in 0..MaxCC }]

\* A log file: unreadable (open raises), or a sequence of lines.
Logs == [readable : {FALSE}, lines : {<< >>}]
        \cup [readable : {TRUE},
              lines : UNION { [1..n -> LogLine] : n \in 0..MaxLines }]

Thresholds == 0..MaxThreshold

\* the default of the threshold parameter, and the value the controller passes
DefaultThreshold == 1

\* cc_rcr = 0.0
InitialCcRcr == 0

\* "while 'Overall' not in line: line = next(fp)": the index of the first line
\* at or after i that holds "Overall", 0 when the file ends first
RECURSIVE NextOverall(_, _)
NextOverall(lines, i) ==
    IF i > Len(lines) THEN 0
    ELSE IF lines[i].overall THEN i
    ELSE NextOverall(lines, i + 1)

\* The body of the try block from line i on, with cc_rcr = cc so far:
\* [cc, exc], exc being the exception that ended it, or "none".
RECURSIVE ScanLog(_, _, _)
ScanLog(lines, i, cc) ==
    IF i > Len(lines) THEN [cc |-> cc, exc |-> "none"]
    ELSE IF lines[i].table
         THEN LET j == NextOverall(lines, i)
              IN  IF j = 0 THEN [cc |-> cc, exc |-> "StopIteration"]
                  ELSE IF lines[j].f3 = None
                       THEN [cc |-> cc, exc |-> "ValueError"]
                       ELSE ScanLog(lines, j + 1, lines[j].f3[1])
         ELSE ScanLog(lines, i + 1, cc)

TryBlock(log) ==
    IF ~log.readable THEN [cc |-> InitialCcRcr, exc |-> "OSError"]
    ELSE ScanLog(log.lines, 1, InitialCcRcr)

\* "except: pass" catches whatever the try block raises
Catches(exc) == TRUE

\* a comparison that excludes the threshold itself
SignalPresent_strict(cc, thr) == cc > thr

\* if cc_rcr >= threshold: return True, else: return False
SignalPresent(cc, thr) == cc >= thr

if_anomalous_signal(log, thr) ==
    LET t == TryBlock(log)
    IN  IF t.exc # "none" /\ ~Catches(t.exc)
        THEN [ret |-> FALSE, raised |-> TRUE]
        ELSE [ret |-> SignalPresent(t.cc, thr), raised |-> FALSE]

InitAnom ==
    /\ aimlessLog \in Logs
    /\ threshold \in Thresholds
    /\ anomCalled = FALSE
    /\ anomOut = [ret |-> FALSE, raised |-> FALSE]

CallIfAnomalousSignal ==
    /\ ~anomCalled
    /\ anomCalled' = TRUE
    /\ anomOut' = if_anomalous_signal(aimlessLog, threshold)
    /\ UNCHANGED << aimlessLog, threshold >>

\* ===================================== AutoPROCExecTask.run (652-659, 673)
\* Tasks that run at the same time, each choosing its AutoPROCExec_k under
\* the same getWorkingDirectory().
MaxCallers == 3
Callers == 1..MaxCallers

\* suffixes that may be directories before the first caller comes
MaxDirs == 2

\* Path.is_dir() of <base>/AutoPROCExec_k
IsDir_never(ds, k) == FALSE

IsDir(ds, k) == k \in ds

AllocIdle ==
    /\ dirs = {}
    /\ alloc = [c \in Callers |-> [pc |-> "idle", dir |-> 0, inc_x |-> 0]]

InitAlloc ==
    /\ dirs \in SUBSET (0..(MaxDirs - 1))
    /\ alloc = [c \in Callers |-> [pc |-> "idle", dir |-> 0, inc_x |-> 0]]

\* lines 653-654: autoPROCExecDir = .../AutoPROCExec_0, inc_x = 1
AllocStart(c) ==
    /\ alloc[c].pc = "idle"
    /\ alloc' = [alloc EXCEPT ![c] = [pc |-> "test", dir |-> 0, inc_x |-> 1]]
    /\ UNCHANGED << dirs, resVars, anomVars, maxiv, ctlVars, pdb, xia2, pipe >>

\* lines 655-659: one test of the while loop; the body takes the next
\* suffix, the exit writes outData["workingDirectory"]
AllocTest(c) ==
    /\ alloc[c].pc = "test"
    /\ alloc' = [alloc EXCEPT ![c] =
                    IF IsDir(dirs, alloc[c].dir)
                    THEN [pc |-> "test", dir |-> alloc[c].inc_x,
                          inc_x |-> alloc[c].inc_x + 1]
                    ELSE [alloc[c] EXCEPT !.pc = "chosen"]]
    /\ UNCHANGED << dirs, resVars, anomVars, maxiv, ctlVars, pdb, xia2, pipe >>

\* line 673 and the command run with it: "-d <autoPROCExecDir>" has the
\* program make the directory, if it is not there yet
ExecMakesDir(c) ==
    /\ alloc[c].pc = "chosen"
    /\ dirs' = dirs \cup { alloc[c].dir }
    /\ alloc' = [alloc EXCEPT ![c].pc = "made"]
    /\ UNCHANGED << resVars, anomVars, maxiv, ctlVars, pdb, xia2, pipe >>

\* ======================================= MAXIVAutoProcessingTask.run (80-288)
\* The tasks run() creates before its first return, in the order it starts
\* and joins them (lines 225-231), and the two it names after that return.
StartOrder == << "imgQualityDozor", "edna2ProcTask", "fastDpTask" >>
LaterTasks == { "autoPROCTask", "xia2DialsTask" }
MaxivTasks == { StartOrder[i] : i \in 1..Len(StartOrder) } \cup LaterTasks

\* how a task ends: isSuccess() or not, and for the two pipelines whether
\* outData holds HighAnomSignal = True
MaxivOutcomes(t) ==
    IF t = "imgQualityDozor" THEN { "ok", "failed" }
    ELSE { "ok", "okHighAnom", "failed" }

MaxivAtRest ==
    [ pc |-> "start", hasDataCollectionId |-> FALSE, hasMasterFilePath |-> FALSE,
      anomalous |-> FALSE, started |-> 0, joined |-> 0,
      status |-> [t \in MaxivTasks |-> "idle"],
      isFailure |-> FALSE, errorLog |-> "", outData |-> {} ]

MaxivIdle == maxiv = MaxivAtRest

\* lines 89-91: the fields of the request run() decides on
InitMaxiv ==
    \E d, m, a \in BOOLEAN :
        maxiv = [MaxivAtRest EXCEPT !.hasDataCollectionId = d,
                                    !.hasMasterFilePath = m, !.anomalous = a]

MaxivFails(msg) ==
    [maxiv EXCEPT !.isFailure = TRUE, !.errorLog = msg, !.pc = "returned"]

\* lines 142-145
MaxivNoDataCollectionId ==
    /\ maxiv.pc = "start"
    /\ ~maxiv.hasDataCollectionId
    /\ maxiv' = MaxivFails("No dataCollectionId, exiting.")
    /\ UNCHANGED << resVars, anomVars, allocVars, ctlVars, pdb, xia2, pipe >>

\* lines 147-181: the record of the data collection, or on any exception
\* the master file of the request, whose name may not fit the template
MaxivFindDataCollection ==
    /\ maxiv.pc = "start"
    /\ maxiv.hasDataCollectionId
    /\ \E found, templateFound \in BOOLEAN :
          maxiv' =
              IF found THEN [maxiv EXCEPT !.pc = "starting"]
              ELSE IF ~maxiv.hasMasterFilePath
              THEN MaxivFails("No dataCollectionId or masterFilePath found, exiting")
              ELSE IF ~templateFound THEN MaxivFails("File template not found")
              ELSE [maxiv EXCEPT !.pc = "starting"]
    /\ UNCHANGED << resVars, anomVars, allocVars, ctlVars, pdb, xia2, pipe >>

\* lines 225-227: start() of the next task
MaxivStartNext ==
    /\ maxiv.pc = "starting"
    /\ LET t == StartOrder[maxiv.started + 1] IN
       maxiv' = [maxiv EXCEPT
                    !.status[t] = "running",
                    !.started = @ + 1,
                    !.pc = IF maxiv.started + 1 = Len(StartOrder)
                           THEN "joining" ELSE "starting"]
    /\ UNCHANGED << resVars, anomVars, allocVars, ctlVars, pdb, xia2, pipe >>

\* lines 229-231: join() of the next task, once it has ended
MaxivJoinNext ==
    /\ maxiv.pc = "joining"
    /\ LET t == StartOrder[maxiv.joined + 1] IN
       /\ maxiv.status[t] \notin { "idle", "running" }
       /\ maxiv' = [maxiv EXCEPT
                       !.joined = @ + 1,
                       !.pc = IF maxiv.joined + 1 = Len(StartOrder)
                              THEN "return" ELSE "joining"]
    /\ UNCHANGED << resVars, anomVars, allocVars, ctlVars, pdb, xia2, pipe >>

\* line 232: return, with nothing; lines 233-288 are never reached
MaxivReturn ==
    /\ maxiv.pc = "return"
    /\ maxiv' = [maxiv EXCEPT !.pc = "returned"]
    /\ UNCHANGED << resVars, anomVars, allocVars, ctlVars, pdb, xia2, pipe >>

\* a running task ends
MaxivTaskFinish ==
    /\ \E t \in MaxivTasks : \E o \in MaxivOutcomes(t) :
          /\ maxiv.status[t] = "running"
          /\ maxiv' = [maxiv EXCEPT !.status[t] = o]
    /\ UNCHANGED << resVars, anomVars, allocVars, ctlVars, pdb, xia2, pipe >>

\* ====================== UtilsPDB.fetchPdbFileFromAccessionCode (44-75)
\* A path is the sequence of its components; the directories a call can be
\* made in and be given as targetDirectory, and the codes asked for.
Directories == { << "home" >>, << "data", "pdb" >>, << "work" >> }
PdbCodes == { "13PK", "1ABC" }

\* Path.name: the last component; a / b for a file name b
PathName(p) == p[Len(p)]
PathJoin(d, name) == Append(d, name)

\* the directory tempfile.TemporaryDirectory() makes
TempDir == << "tmp", "tmpdir" >>

\* what get_pdb names the file it writes into the working directory
PdbFileName(code) == IF code = "13PK" THEN "13PK.pdb" ELSE "1ABC.pdb"

PdbAtRest ==
    [ pc |-> "idle", pdbCode |-> "13PK", targetDirectory |-> << "home" >>,
      mirrorSet |-> FALSE, processCwd |-> << "home" >>, calledIn |-> << "home" >>,
      cwd |-> << >>, tempdir |-> "none", pdbPath |-> << >>,
      files |-> {}, copied |-> FALSE, ret |-> "unset" ]

PdbIdle == pdb = PdbAtRest

InitPdb ==
    \E code \in PdbCodes : \E target, at \in Directories : \E m \in BOOLEAN :
        pdb = [PdbAtRest EXCEPT !.pdbCode = code, !.targetDirectory = target,
                                !.mirrorSet = m, !.processCwd = at,
                                !.calledIn = at]

PdbOthers == << resVars, anomVars, allocVars, maxiv, ctlVars, xia2, pipe >>

\* lines 53-58: cwd = Path.cwd(), and the mirror
PdbEnter ==
    /\ pdb.pc = "idle"
    /\ pdb' = [pdb EXCEPT !.cwd = pdb.processCwd, !.pc = "tempdir"]
    /\ UNCHANGED PdbOthers

\* lines 60-61: the temporary directory, and os.chdir into it
PdbChdirTemp ==
    /\ pdb.pc = "tempdir"
    /\ pdb' = [pdb EXCEPT !.tempdir = "made", !.processCwd = TempDir,
                          !.pc = "get"]
    /\ UNCHANGED PdbOthers

\* lines 63-65: get_pdb writes the file into the working directory and
\* returns its name, or raises
PdbGet ==
    /\ pdb.pc = "get"
    /\ \E ok \in BOOLEAN :
          pdb' = IF ok
                 THEN LET p == PathJoin(pdb.processCwd, PdbFileName(pdb.pdbCode))
                      IN  [pdb EXCEPT !.pdbPath = p, !.files = @ \cup { p },
                                      !.pc = "copy"]
                 ELSE [pdb EXCEPT !.pc = "except"]
    /\ UNCHANGED PdbOthers

\* line 66: the copy to targetDirectory / pdbPath.name, or an exception
PdbCopy ==
    /\ pdb.pc = "copy"
    /\ \E ok \in BOOLEAN :
          pdb' = IF ok
                 THEN [pdb EXCEPT
                          !.files = @ \cup { PathJoin(pdb.targetDirectory,
                                                      PathName(pdb.pdbPath)) },
                          !.copied = TRUE, !.pc = "leave"]
                 ELSE [pdb EXCEPT !.pc = "except"]
    /\ UNCHANGED PdbOthers

\* the files that are not under the temporary directory
Outside(fs) == { p \in fs : SubSeq(p, 1, Len(TempDir)) # TempDir }

\* an except clause that returns from inside the temporary directory
PdbExcept_stays ==
    /\ pdb.pc = "except"
    /\ pdb' = [pdb EXCEPT !.tempdir = "removed", !.files = Outside(pdb.files),
                          !.ret = "None", !.pc = "returned"]
    /\ UNCHANGED PdbOthers

\* lines 67-71: os.chdir(cwd), tempdir.cleanup(), return None
PdbExcept ==
    /\ pdb.pc = "except"
    /\ pdb' = [pdb EXCEPT !.processCwd = pdb.cwd, !.tempdir = "removed",
                          !.files = Outside(pdb.files),
                          !.ret = "None", !.pc = "returned"]
    /\ UNCHANGED PdbOthers

\* lines 73-75: os.chdir(cwd), tempdir.cleanup(), return the target path
PdbReturn ==
    /\ pdb.pc = "leave"
    /\ pdb' = [pdb EXCEPT !.processCwd = pdb.cwd, !.tempdir = "removed",
                          !.files = Outside(pdb.files),
                          !.ret = PathJoin(pdb.targetDirectory,
                                           PathName(pdb.pdbPath)),
                          !.pc = "returned"]
    /\ UNCHANGED PdbOthers

\* ============================================================ Edna2ProcTask
\* Every task the controller creates, under the name run() gives it.
WaitStages == { "waitFileFirst", "waitFileLast" }
RerunStages == { "xdsRerun_anom", "xdsRerun_noAnom" }
XscaleStages == { "xscaleTask_mergeAnom", "xscaleTask_mergenoAnom",
                  "xscaleTask_unmergeAnom", "xscaleTask_unmergenoAnom" }
PointlessStages == { "pointlessTaskNoAnom", "pointlessTaskAnom" }
AimlessStages == { "aimlessTask_anom", "aimlessTask_noanom" }
TruncateStages == { "truncateAnom", "truncateNoAnom" }
UniqueifyStages == { "uniqueifyAnom", "uniqueifyNoAnom" }
StoreStages == { "ispybStoreAutoProcResultsAnom",
                 "ispybStoreAutoProcResultsNoAnom" }
Stages ==
    WaitStages \cup { "subWedgeAssembly", "indexing", "integration",
                      "pointlessTask", "phenixXTriageTask" }
    \cup RerunStages \cup XscaleStages \cup PointlessStages \cup AimlessStages
    \cup TruncateStages \cup UniqueifyStages \cup StoreStages

\* How a task can end.  "failed": isFailure() is true and outData holds its
\* keys; "failedNoOut": isFailure() is true and outData is empty; a wait for
\* a file ends with outData["timedOut"] false ("ok") or true ("timedOut").
Outcomes(s) ==
    IF s \in WaitStages THEN { "ok", "timedOut" }
    ELSE { "ok", "failed", "failedNoOut" }
Ended == { "ok", "timedOut", "failed", "failedNoOut" }

\* task.isFailure()
StageIsFailure(s) == status[s] \in { "failed", "failedNoOut" }

\* task.outData[key] raises KeyError
NoOutData(s) == status[s] \in { "idle", "running", "failedNoOut" }

Handles == { "anom", "noanom" }
Terminal == { "returned", "raised" }

\* lines 139-144: doAnom is set on both branches, doNoAnom follows the request
doAnom == TRUE
doNoAnom == anomalous

\* a step that may end run() without calling setFailure()
NoteStop ==
    /\ stoppedAt' = IF pc' \in Terminal THEN pc ELSE stoppedAt
    /\ UNCHANGED << isFailure, errorLog >>

\* ---- what run() hands to the constructors of the tasks of the two
\* branches (lines 474-485, 536-580, 633-640, 653-677, 735-769, 771-776):
\* the isAnom (or "anom") entry of inData, and the stages whose outData the
\* entries of inData come from
BranchTasks ==
    RerunStages \cup XscaleStages \cup PointlessStages \cup AimlessStages
    \cup TruncateStages \cup UniqueifyStages

NotCreated == [isAnom |-> "unset", inputs |-> {}]

\* d[key] = v on a dict: every name bound to the dict sees the entry
SetItem(d, key, v) == [k \in DOMAIN d \cup { key } |-> IF k = key THEN v ELSE d[k]]

\* lines 459-479: xdsRerun_anomData and xdsRerun_noAnomData are both bound
\* to the one dict rerunCor_data, whose isAnom entry is written twice before
\* either task is created (483-484)
rerunCor_data ==
    LET made == [inputs |-> { "integration", "pointlessTask" }]
        asAnom == SetItem(made, "isAnom", "True")
    IN  SetItem(asAnom, "isAnom", "False")
xdsRerun_anomData == rerunCor_data
xdsRerun_noAnomData == rerunCor_data

\* lines 537-580: one dict xscaleTaskData for the four tasks, each created
\* right after its own entries were written
xscaleTaskData == [inputs |-> RerunStages \cup { "pointlessTask" }]

InDataOf(s) ==
    CASE s = "xdsRerun_anom" -> xdsRerun_anomData
      [] s = "xdsRerun_noAnom" -> xdsRerun_noAnomData
      [] s \in { "xscaleTask_mergeAnom", "xscaleTask_unmergeAnom" } ->
             SetItem(xscaleTaskData, "isAnom", "True")
      [] s \in { "xscaleTask_mergenoAnom", "xscaleTask_unmergenoAnom" } ->
             SetItem(xscaleTaskData, "isAnom", "False")
      [] s \in PointlessStages ->
             [isAnom |-> "unset", inputs |-> { "xdsRerun_anom" }]
      [] s = "aimlessTask_anom" ->
             [isAnom |-> "True", inputs |-> { "pointlessTaskAnom", "indexing" }]
      [] s = "aimlessTask_noanom" ->
             [isAnom |-> "False", inputs |-> { "pointlessTaskNoAnom", "indexing" }]
      [] s = "truncateAnom" ->
             [isAnom |-> "True", inputs |-> { "aimlessTask_anom" }]
      [] s = "truncateNoAnom" ->
             [isAnom |-> "False", inputs |-> { "aimlessTask_anom" }]
      [] s = "uniqueifyAnom" ->
             [isAnom |-> "unset", inputs |-> { "truncateAnom" }]
      [] s = "uniqueifyNoAnom" ->
             [isAnom |-> "unset", inputs |-> { "truncateNoAnom" }]

\* the task s is created and started
Given(tin, s) ==
    IF s \in BranchTasks THEN [tin EXCEPT ![s] = InDataOf(s)] ELSE tin

\* ---- the task framework: start(), the task's own run, join()
StartAt(l, s, next) ==
    /\ pc = l
    /\ status' = [status EXCEPT ![s] = "running"]
    /\ taskInData' = Given(taskInData, s)
    /\ pc' = next
    /\ UNCHANGED << policyVars, reqVars, rerunPasses, rangeVars, joined, reads, idVars, failVars,
                    trackVars, faults, cutoffVars >>

JoinAt(l, s, next) ==
    /\ pc = l
    /\ status[s] \in Ended
    /\ joined' = joined \cup {s}
    /\ pc' = next
    /\ UNCHANGED << taskInData, policyVars, reqVars, rerunPasses, rangeVars, status, reads, idVars, failVars,
                    trackVars, faults, cutoffVars >>

\* the events of a log that the tracking service did not get
Lost(log) == Cardinality({ i \in 1..Len(log) : ~log[i][4] })

\* what went wrong so far: tasks, tracking-service calls, lost events
FaultsSoFar == faults + Lost(ispybLog)

\* a running task ends, well or badly
StageFinish ==
    \E s \in Stages : \E o \in Outcomes(s) :
        /\ status[s] = "running"
        /\ o # "ok" => FaultsSoFar < MaxFaults
        /\ status' = [status EXCEPT ![s] = o]
        /\ faults' = IF o = "ok" THEN faults ELSE faults + 1
        /\ UNCHANGED << taskInData, policyVars, pc, reqVars, rerunPasses, rangeVars,
                        joined, reads,
                        idVars, failVars, trackVars, cutoffVars >>

\* ---- logToIspyb (1031-1065): one event, to the one id it is given.  An
\* event is << id, step, status, delivered >>: the call to the tracking
\* service is made, and the service takes the event or the call fails.
TrackOutcomes(log) ==
    IF faults + Lost(log) < MaxFaults THEN BOOLEAN ELSE { TRUE }

\* the logs logToIspyb can leave behind
LogToIspyb(log, id, step, st) ==
    IF id = "None" THEN { log }
    ELSE { Append(log, << id, step, st, ok >>) : ok \in TrackOutcomes(log) }

\* the last event sent was lost
LastLost(log) == Len(log) > 0 /\ ~log[Len(log)][4]

\* a logToIspyb that lets the failure of the call through to run()
AfterLog_raising(log, next) == IF LastLost(log) THEN "raised" ELSE next

\* where run() goes on after logToIspyb has left log behind: execute() is
\* the last statement of logToIspybImpl (1064-1065), isFailure() is not
\* looked at and nothing is read from the task
AfterLog(log, next) == next
CallsAfterLog(calls, id) ==
    IF id = "None" THEN calls ELSE calls \cup { "storeAutoProcStatus" }

\* ---- setFailure (95-118)
HandleCreated(h) ==
    IF h = "anom" THEN integrationIdAnom = "id" ELSE integrationIdNoAnom = "id"
MarkFailed(m) ==
    [h \in Handles |-> IF HandleCreated(h) THEN m[h] + 1 ELSE m[h]]
CallsAfterSetFailure(calls) ==
    IF \E h \in Handles : HandleCreated(h)
    THEN calls \cup { "setIspybToFailed" } ELSE calls

\* setFailure() before lines 295-298: isFailure is set, then reading
\* self.integrationIdAnom raises AttributeError and run() never returns
FailBeforeIds(msg) ==
    /\ isFailure' = TRUE
    /\ errorLog' = msg
    /\ stoppedAt' = pc
    /\ pc' = "raised"
    /\ UNCHANGED << taskInData, policyVars, reqVars, rerunPasses, stageVars, idVars, trackVars, faults, cutoffVars >>

\* ---- lines 164-235: the request
\* online without a dataCollectionId (165-168)
OnlineNoDataCollectionId ==
    /\ pc = "start"
    /\ onlineAutoProcessing /\ ~hasDataCollectionId
    /\ FailBeforeIds("No dataCollectionId")
    /\ UNCHANGED rangeVars

\* imageNoEnd as derived from the tracking service's record (180-182)
OnlineImageNoEnd(startImageNumber, numberOfImages) ==
    numberOfImages - startImageNumber + 1

\* online: the data collection is looked up (169-186); the lookup can fail,
\* and run() then goes on from the master file (187-188)
FindDataCollection ==
    /\ pc = "start"
    /\ onlineAutoProcessing /\ hasDataCollectionId
    /\ trackCalls' = trackCalls \cup { "findDataCollection" }
    /\ \/ /\ \E startImageNumber \in 1..MaxStart :
                /\ imageNoStart' = startImageNumber
                /\ imageNoEnd' = OnlineImageNoEnd(startImageNumber, dataset)
          /\ pc' = "guard"
          /\ UNCHANGED faults
       \/ /\ FaultsSoFar < MaxFaults
          /\ faults' = faults + 1
          /\ pc' = "manual"
          /\ UNCHANGED rangeVars
    /\ UNCHANGED << taskInData, policyVars, reqVars, rerunPasses, stageVars, idVars, failVars, ispybLog, markFailed,
                    cutoffVars >>

\* Numbers of images around the limit of the guards: below it, at it and
\* one above it.
ImageCounts == { MinImages - 2, MinImages, MinImages + 1 }

\* inData.get("imageNoStart") and inData.get("imageNoEnd"), 0 for a missing key
RequestStarts == { 0 } \cup 1..MaxStart
RequestEnds == { 0 } \cup ImageCounts

\* from the master file (189-208 and 210-229): the request may lack the
\* master file, its name may not match the template, and imageNoStart and
\* imageNoEnd default to 1 and to the number of images of the master file
FromMasterFile ==
    /\ \/ pc = "manual"
       \/ pc = "start" /\ ~onlineAutoProcessing
    /\ \E hasMasterFilePath, templateFound \in BOOLEAN :
       \E reqStart \in RequestStarts : \E reqEnd \in RequestEnds :
          IF ~hasMasterFilePath
          THEN FailBeforeIds("No dataCollectionId or masterFilePath")
               /\ UNCHANGED rangeVars
          ELSE IF ~templateFound
          THEN FailBeforeIds("File template not found") /\ UNCHANGED rangeVars
          ELSE /\ imageNoStart' = IF reqStart = 0 THEN 1 ELSE reqStart
               /\ imageNoEnd' = IF reqEnd = 0 THEN dataset ELSE reqEnd
               /\ pc' = "guard"
               /\ UNCHANGED << taskInData, policyVars, reqVars, rerunPasses, stageVars, idVars, failVars, trackVars,
                               faults, cutoffVars >>

\* if self.imageNoEnd - self.imageNoStart < 8 (231)
RangeTooShort(first, last) == last - first < MinImages

\* lines 231-235
ImageRangeGuard ==
    /\ pc = "guard"
    /\ IF RangeTooShort(imageNoStart, imageNoEnd)
       THEN FailBeforeIds("There are fewer than 8 images, aborting")
       ELSE /\ pc' = "waitFirst"
            /\ UNCHANGED << taskInData, policyVars, reqVars, rerunPasses, stageVars, idVars, failVars, trackVars,
                            faults, cutoffVars >>
    /\ UNCHANGED rangeVars

\* ---- lines 277-293: the waits for the first and the last image file; a
\* timeout is logged as a warning and nothing else
StartWaitFileFirst == StartAt("waitFirst", "waitFileFirst", "waitFirstJoin")
JoinWaitFileFirst == JoinAt("waitFirstJoin", "waitFileFirst", "waitLast")
StartWaitFileLast == StartAt("waitLast", "waitFileLast", "waitLastJoin")
JoinWaitFileLast == JoinAt("waitLastJoin", "waitFileLast", "createIdAnom")

\* ---- lines 295-317: the tracking handles.  createIntegrationId returns
\* the ids, returns None for them, or raises; the except clause then calls
\* traceback.format_exc(e), which raises TypeError out of run().
\* The tracking service issues ids only for a data collection it is given;
\* with one given, not getting ids counts among the things that go wrong.
CreateIntegrationIdAnom ==
    /\ pc = "createIdAnom"
    /\ idsAssigned' = TRUE
    /\ integrationIdNoAnom' = "None"
    /\ trackCalls' = trackCalls \cup { "createIntegrationId" }
    /\ \/ /\ hasDataCollectionId
          /\ integrationIdAnom' = "id"
          /\ pc' = IF doNoAnom THEN "createIdNoAnom" ELSE "subWedge"
          /\ UNCHANGED faults
       \/ /\ hasDataCollectionId => FaultsSoFar < MaxFaults
          /\ faults' = IF hasDataCollectionId THEN faults + 1 ELSE faults
          /\ integrationIdAnom' = "None"
          /\ \/ pc' = IF doNoAnom THEN "createIdNoAnom" ELSE "subWedge"
             \/ pc' = "raised"
    /\ NoteStop
    /\ UNCHANGED << taskInData, policyVars, reqVars, rerunPasses, rangeVars, stageVars, integrationId,
                    ispybLog, markFailed, cutoffVars >>

CreateIntegrationIdNoAnom ==
    /\ pc = "createIdNoAnom"
    /\ trackCalls' = trackCalls \cup { "createIntegrationId" }
    /\ \/ /\ hasDataCollectionId
          /\ integrationIdNoAnom' = "id"
          /\ pc' = "subWedge"
          /\ UNCHANGED faults
       \/ /\ hasDataCollectionId => FaultsSoFar < MaxFaults
          /\ faults' = IF hasDataCollectionId THEN faults + 1 ELSE faults
          /\ integrationIdNoAnom' = "None"
          /\ pc' \in { "subWedge", "raised" }
    /\ NoteStop
    /\ UNCHANGED << taskInData, policyVars, reqVars, rerunPasses, rangeVars, stageVars, idsAssigned,
                    integrationIdAnom, integrationId, ispybLog,
                    markFailed, cutoffVars >>

\* ---- setFailure() once the ids exist, then return
FailAndReturn(msg, logs) ==
    /\ isFailure' = TRUE
    /\ errorLog' = msg
    /\ stoppedAt' = pc
    /\ markFailed' = MarkFailed(markFailed)
    /\ ispybLog' \in logs
    /\ trackCalls' =
           IF logs = { ispybLog } THEN CallsAfterSetFailure(trackCalls)
           ELSE CallsAfterSetFailure(trackCalls) \cup { "storeAutoProcStatus" }
    /\ pc' = "returned"

\* ---- lines 326-340: the sub-wedge and the number of images
\* a request that brings its own subWedge skips the assembly, and line 335
\* then reads self.imgNumHigh, which was never set
SubWedgeGiven ==
    /\ pc = "subWedge"
    /\ pc' = "raised"
    /\ NoteStop
    /\ UNCHANGED << taskInData, policyVars, reqVars, rerunPasses, rangeVars, stageVars, idVars, trackVars,
                    faults, cutoffVars >>

StartSubWedgeAssembly == StartAt("subWedge", "subWedgeAssembly", "subWedgeJoin")
JoinSubWedgeAssembly == JoinAt("subWedgeJoin", "subWedgeAssembly", "numImages")

\* self.numImages < 8 (335-337), numImages = imgNumHigh - imgNumLow + 1
TooFewImages(numImages) == numImages < MinImages

NumImagesGuard ==
    /\ pc = "numImages"
    /\ reads' = reads \cup { "subWedgeAssembly" }
    /\ IF TooFewImages(dataset)
       THEN FailAndReturn("There are fewer than 8 images. Aborting.", { ispybLog })
            /\ UNCHANGED integrationId
       ELSE /\ pc' = "indexing"
            /\ UNCHANGED << integrationId, failVars, trackVars >>
    /\ UNCHANGED << taskInData, policyVars, reqVars, rerunPasses, rangeVars, status, joined, idsAssigned,
                    integrationIdAnom, integrationIdNoAnom, faults, cutoffVars >>

\* ---- lines 347-381: indexing
\* the id every status event goes to (349-354)
ChosenIntegrationId ==
    IF integrationIdAnom # "None" THEN "anom"
    ELSE IF integrationIdNoAnom # "None" THEN "noanom"
    ELSE "None"

LaunchIndexing ==
    /\ pc = "indexing"
    /\ integrationId' = ChosenIntegrationId
    /\ ispybLog' \in LogToIspyb(ispybLog, integrationId', "Indexing", "Launched")
    /\ trackCalls' = CallsAfterLog(trackCalls, integrationId')
    /\ status' = [status EXCEPT !["indexing"] = "running"]
    /\ taskInData' = Given(taskInData, "indexing")
    /\ pc' = AfterLog(ispybLog', "indexingJoin")
    /\ UNCHANGED << policyVars, reqVars, rerunPasses, rangeVars, joined, reads, idsAssigned,
                    integrationIdAnom, integrationIdNoAnom, failVars,
                    markFailed, faults, cutoffVars >>

\* join, then "if task.isFailure(): log Failed, setFailure, return;
\* else: log Successful" for the step named
JoinAndCheck(l, s, step, msg, next) ==
    /\ pc = l
    /\ status[s] \in Ended
    /\ joined' = joined \cup {s}
    /\ IF StageIsFailure(s)
       THEN /\ FailAndReturn(msg, LogToIspyb(ispybLog, integrationId, step, "Failed"))
            /\ UNCHANGED reads
       ELSE /\ ispybLog' \in LogToIspyb(ispybLog, integrationId, step, "Successful")
            /\ trackCalls' = CallsAfterLog(trackCalls, integrationId)
            /\ reads' = reads \cup {s}
            /\ pc' = AfterLog(ispybLog', next)
            /\ UNCHANGED << failVars, markFailed >>
    /\ UNCHANGED << taskInData, policyVars, reqVars, rerunPasses, rangeVars, status, idVars, faults, cutoffVars >>

\* an indexing that is started again when it has failed
JoinIndexing_retry ==
    IF StageIsFailure("indexing")
    THEN /\ JoinAt("indexingJoin", "indexing", "indexing")
         /\ UNCHANGED << faults, trackCalls >>
    ELSE JoinAndCheck("indexingJoin", "indexing", "Indexing",
                      "Error at indexing step. Stopping.", "integration")

JoinIndexing ==
    JoinAndCheck("indexingJoin", "indexing", "Indexing",
                 "Error at indexing step. Stopping.", "integration")

\* ---- lines 383-431: integration
LaunchIntegration ==
    /\ pc = "integration"
    /\ reads' = reads \cup { "indexing" }
    /\ ispybLog' \in LogToIspyb(ispybLog, integrationId, "Integration", "Launched")
    /\ trackCalls' = CallsAfterLog(trackCalls, integrationId)
    /\ status' = [status EXCEPT !["integration"] = "running"]
    /\ taskInData' = Given(taskInData, "integration")
    /\ pc' = AfterLog(ispybLog', "integrationJoin")
    /\ UNCHANGED << policyVars, reqVars, rerunPasses, rangeVars, joined, idVars, failVars, markFailed,
                    faults, cutoffVars >>

\* an integration whose failure is not looked at
JoinIntegration_unchecked ==
    JoinAt("integrationJoin", "integration", "firstCutoff")

JoinIntegration ==
    JoinAndCheck("integrationJoin", "integration", "Integration",
                 "Error at integration step. Stopping.", "firstCutoff")

\* ---- lines 433-446: the first resolution cutoff
\* The completeness entries a CORRECT step can report, as far as the
\* controller is concerned: none, none that qualifies, and lists with
\* qualifying entries.
StageEntryLists ==
    { << >>,
      << [res |-> 2, include_res_based_on_cc |-> FALSE] >>,
      << [res |-> 3, include_res_based_on_cc |-> FALSE],
         [res |-> 1, include_res_based_on_cc |-> FALSE] >>,
      << [res |-> 3, include_res_based_on_cc |-> TRUE],
         [res |-> 2, include_res_based_on_cc |-> TRUE],
         [res |-> 1, include_res_based_on_cc |-> FALSE] >> }

FirstResCutoff ==
    /\ pc = "firstCutoff"
    /\ reads' = reads \cup { "integration" }
    /\ \E es \in StageEntryLists :
          /\ completenessEntries' = es
          /\ firstResCutoff' = getResCutoff(es)
    /\ IF firstResCutoff' = None
       THEN FailAndReturn("No bins with CC1/2 greater than 30%", { ispybLog })
       ELSE /\ pc' = "pointless"
            /\ UNCHANGED << failVars, trackVars >>
    /\ UNCHANGED << taskInData, policyVars, reqVars, rerunPasses, rangeVars, status, joined, idVars, faults,
                    anomResCutoff, noAnomResCutoff, highAnomSignal, outData >>

\* ---- a step of run() that only reads the outData of tasks: it raises
\* KeyError when one of the tasks in mustHave has an empty outData
ReadAt(l, mustHave, alsoRead, next) ==
    /\ pc = l
    /\ reads' = reads \cup mustHave \cup alsoRead
    /\ pc' = IF \E s \in mustHave : NoOutData(s) THEN "raised" ELSE next
    /\ NoteStop
    /\ UNCHANGED << taskInData, policyVars, reqVars, rerunPasses, rangeVars, status, joined, idVars,
                    trackVars, faults, cutoffVars >>

\* ---- lines 448-457: pointless on the integrated data; its failure is
\* not looked at
StartPointlessTask == StartAt("pointless", "pointlessTask", "pointlessJoin")
JoinPointlessTask == JoinAt("pointlessJoin", "pointlessTask", "rerunData")

\* ---- lines 459-485: the input of the two CORRECT reruns
BuildRerunData ==
    ReadAt("rerunData", { "pointlessTask" }, { "integration" }, "rerunAnom")

\* ---- lines 487-490: both reruns are started, then both are joined
StartRerunAnom ==
    /\ pc = "rerunAnom"
    /\ status' = [status EXCEPT !["xdsRerun_anom"] = "running"]
    /\ taskInData' = Given(taskInData, "xdsRerun_anom")
    /\ rerunPasses' = rerunPasses + 1
    /\ pc' = "rerunNoAnom"
    /\ UNCHANGED << policyVars, reqVars, rangeVars, joined, reads, idVars, failVars,
                    trackVars, faults, cutoffVars >>
StartRerunNoAnom == StartAt("rerunNoAnom", "xdsRerun_noAnom", "rerunJoinAnom")
\* the first rerun's failure is acted on as soon as it is joined
JoinRerunAnom_checked ==
    JoinAndCheck("rerunJoinAnom", "xdsRerun_anom", "Scaling",
                 "Anom, noAnom rerun of CORRECT failed", "rerunJoinNoAnom")

JoinRerunAnom == JoinAt("rerunJoinAnom", "xdsRerun_anom", "rerunJoinNoAnom")
JoinRerunNoAnom == JoinAt("rerunJoinNoAnom", "xdsRerun_noAnom", "rerunCheck")

\* "if a.isFailure() or b.isFailure(): ..." over a group that was joined:
\* setFailure and a Failed event, or a Successful event
CheckGroup(l, group, step, msg, next) ==
    /\ pc = l
    /\ IF \E s \in group : StageIsFailure(s)
       THEN FailAndReturn(msg, LogToIspyb(ispybLog, integrationId, step, "Failed"))
       ELSE /\ ispybLog' \in LogToIspyb(ispybLog, integrationId, step, "Successful")
            /\ trackCalls' = CallsAfterLog(trackCalls, integrationId)
            /\ pc' = AfterLog(ispybLog', next)
            /\ UNCHANGED << failVars, markFailed >>
    /\ UNCHANGED << taskInData, policyVars, reqVars, rerunPasses, rangeVars, stageVars, idVars, faults, cutoffVars >>

\* lines 495-508
CheckRerun ==
    CheckGroup("rerunCheck", RerunStages, "Scaling",
               "Anom, noAnom rerun of CORRECT failed", "secondCutoff")

\* ---- lines 510-534: the second resolution cutoff, one per rerun; when one
\* is missing setFailure() is called, the event is sent, and setFailure() is
\* called again
SecondResCutoff ==
    /\ pc = "secondCutoff"
    /\ reads' = reads \cup RerunStages
    /\ \E ea, en \in StageEntryLists :
          /\ anomResCutoff' = getResCutoff(ea)
          /\ noAnomResCutoff' = getResCutoff(en)
    /\ IF anomResCutoff' = None \/ noAnomResCutoff' = None
       THEN /\ isFailure' = TRUE
            /\ errorLog' = "Error in determining resolution after CORRECT rerun."
            /\ stoppedAt' = pc
            /\ markFailed' = MarkFailed(MarkFailed(markFailed))
            /\ ispybLog' \in LogToIspyb(ispybLog, integrationId, "Scaling", "Failed")
            /\ trackCalls' = CallsAfterLog(CallsAfterSetFailure(trackCalls),
                                           integrationId)
            /\ pc' = "returned"
       ELSE /\ ispybLog' \in LogToIspyb(ispybLog, integrationId, "Scaling",
                                      "Successful")
            /\ trackCalls' = CallsAfterLog(trackCalls, integrationId)
            /\ pc' = AfterLog(ispybLog', "xscale")
            /\ UNCHANGED << failVars, markFailed >>
    /\ UNCHANGED << taskInData, policyVars, reqVars, rerunPasses, rangeVars, status, joined, idVars, faults,
                    completenessEntries, firstResCutoff, highAnomSignal, outData >>

\* ---- lines 536-613: the four XSCALE tasks
LaunchXscale ==
    /\ pc = "xscale"
    /\ reads' = reads \cup RerunStages \cup { "pointlessTask" }
    /\ ispybLog' \in LogToIspyb(ispybLog, integrationId, "Scaling", "Launched")
    /\ trackCalls' = CallsAfterLog(trackCalls, integrationId)
    /\ status' = [status EXCEPT !["xscaleTask_mergeAnom"] = "running"]
    /\ taskInData' = Given(taskInData, "xscaleTask_mergeAnom")
    /\ pc' = AfterLog(ispybLog', "xscaleMergenoAnom")
    /\ UNCHANGED << policyVars, reqVars, rerunPasses, rangeVars, joined, idVars, failVars, markFailed,
                    faults, cutoffVars >>

StartXscaleMergenoAnom ==
    StartAt("xscaleMergenoAnom", "xscaleTask_mergenoAnom", "xscaleUnmergeAnom")
StartXscaleUnmergeAnom ==
    StartAt("xscaleUnmergeAnom", "xscaleTask_unmergeAnom", "xscaleUnmergenoAnom")
StartXscaleUnmergenoAnom ==
    StartAt("xscaleUnmergenoAnom", "xscaleTask_unmergenoAnom", "xscaleJoin1")
JoinXscaleMergeAnom ==
    JoinAt("xscaleJoin1", "xscaleTask_mergeAnom", "xscaleJoin2")
JoinXscaleMergenoAnom ==
    JoinAt("xscaleJoin2", "xscaleTask_mergenoAnom", "xscaleJoin3")
JoinXscaleUnmergeAnom ==
    JoinAt("xscaleJoin3", "xscaleTask_unmergeAnom", "xscaleJoin4")
\* a step of run() that is left out
SkipAt(l, next) ==
    /\ pc = l
    /\ pc' = next
    /\ UNCHANGED << taskInData, policyVars, reqVars, rerunPasses, rangeVars, stageVars, idVars, failVars,
                    trackVars, faults, cutoffVars >>

\* the last XSCALE task is not joined
JoinXscaleUnmergenoAnom_left_out == SkipAt("xscaleJoin4", "xscaleCheck")

JoinXscaleUnmergenoAnom ==
    JoinAt("xscaleJoin4", "xscaleTask_unmergenoAnom", "xscaleCheck")

\* lines 598-613
CheckXscale ==
    CheckGroup("xscaleCheck", XscaleStages, "Scaling",
               "XSCALE generation failed", "pointlessData")

\* ---- lines 615-651: pointless per branch; both take the anomalous
\* rerun's XDS_ASCII.HKL; the copies of the XSCALE.LP files are in a try
BuildPointlessData ==
    ReadAt("pointlessData", { "xdsRerun_anom" }, XscaleStages, "pointlessNoAnom")

StartPointlessNoAnom ==
    StartAt("pointlessNoAnom", "pointlessTaskNoAnom", "pointlessAnom")
StartPointlessAnom ==
    StartAt("pointlessAnom", "pointlessTaskAnom", "pointlessJoinNoAnom")
JoinPointlessNoAnom ==
    JoinAt("pointlessJoinNoAnom", "pointlessTaskNoAnom", "pointlessJoinAnom")
JoinPointlessAnom ==
    JoinAt("pointlessJoinAnom", "pointlessTaskAnom", "aimlessData")

\* ---- lines 653-689: aimless per branch
BuildAimlessData ==
    ReadAt("aimlessData", PointlessStages \cup { "indexing" }, {}, "aimlessAnom")

StartAimlessAnom == StartAt("aimlessAnom", "aimlessTask_anom", "aimlessNoanom")
StartAimlessNoanom ==
    StartAt("aimlessNoanom", "aimlessTask_noanom", "aimlessJoinAnom")
JoinAimlessAnom ==
    JoinAt("aimlessJoinAnom", "aimlessTask_anom", "aimlessJoinNoanom")
JoinAimlessNoanom ==
    JoinAt("aimlessJoinNoanom", "aimlessTask_noanom", "anomSignal")

\* ---- lines 692-721: the anomalous signal, from the anomalous aimless log
\* the aimless logs the controller can meet
StageLogs ==
    { [readable |-> FALSE, lines |-> << >>],
      [readable |-> TRUE, lines |-> << >>],
      [readable |-> TRUE,
       lines |-> << [table |-> TRUE, overall |-> FALSE, f3 |-> None],
                    [table |-> FALSE, overall |-> TRUE, f3 |-> Some(0)] >>],
      [readable |-> TRUE,
       lines |-> << [table |-> TRUE, overall |-> FALSE, f3 |-> None],
                    [table |-> FALSE, overall |-> TRUE, f3 |-> Some(1)] >>] }

EvaluateAnomalousSignal ==
    /\ pc = "anomSignal"
    /\ reads' = reads \cup AimlessStages
    /\ IF NoOutData("aimlessTask_anom")
       THEN pc' = "raised" /\ UNCHANGED highAnomSignal
       ELSE \E log \in StageLogs :
              LET r == if_anomalous_signal(log, DefaultThreshold)
              IN  IF r.raised
                  THEN pc' = "raised" /\ UNCHANGED highAnomSignal
                  ELSE /\ highAnomSignal' = IF r.ret THEN "True" ELSE "False"
                       /\ pc' = "xtriage"
    /\ NoteStop
    /\ UNCHANGED << taskInData, policyVars, reqVars, rerunPasses, rangeVars, status, joined, idVars,
                    trackVars, faults, completenessEntries, firstResCutoff,
                    anomResCutoff, noAnomResCutoff, outData >>

\* ---- lines 724-783: xtriage, then truncate and uniqueify per branch
StartXTriage == StartAt("xtriage", "phenixXTriageTask", "truncateAnom")
StartTruncateAnom == StartAt("truncateAnom", "truncateAnom", "truncateNoAnom")
StartTruncateNoAnom ==
    StartAt("truncateNoAnom", "truncateNoAnom", "truncateJoinAnom")
JoinTruncateAnom == JoinAt("truncateJoinAnom", "truncateAnom", "truncateJoinNoAnom")
JoinTruncateNoAnom ==
    JoinAt("truncateJoinNoAnom", "truncateNoAnom", "uniqueifyData")

\* lines 771-776
BuildUniqueifyData ==
    ReadAt("uniqueifyData", TruncateStages, {}, "uniqueifyAnom")

StartUniqueifyAnom == StartAt("uniqueifyAnom", "uniqueifyAnom", "uniqueifyNoAnom")
StartUniqueifyNoAnom ==
    StartAt("uniqueifyNoAnom", "uniqueifyNoAnom", "uniqueifyJoinAnom")
JoinUniqueifyAnom ==
    JoinAt("uniqueifyJoinAnom", "uniqueifyAnom", "uniqueifyJoinNoAnom")
JoinUniqueifyNoAnom ==
    JoinAt("uniqueifyJoinNoAnom", "uniqueifyNoAnom", "xtriageJoin")
\* xtriage is not joined before its log is copied
JoinXTriage_left_out == SkipAt("xtriageJoin", "copyResults")

JoinXTriage == JoinAt("xtriageJoin", "phenixXTriageTask", "copyResults")

\* ---- lines 785-811: the logs and files of the last stages are copied in a
\* try whose except clause logs a name that is not bound, so a missing
\* outData key ends run() with NameError; then xtriage's findings are read
CopyResults ==
    ReadAt("copyResults",
           TruncateStages \cup UniqueifyStages \cup { "phenixXTriageTask" },
           {}, "storeAnom")

\* ---- lines 813-865: the results go to the tracking service, branch by
\* branch; a failed upload is logged and nothing else
StartStoreAnom ==
    /\ trackCalls' = trackCalls \cup { "storeAutoProcResults" }
    /\ pc = "storeAnom"
    /\ status' = [status EXCEPT !["ispybStoreAutoProcResultsAnom"] = "running"]
    /\ taskInData' = Given(taskInData, "ispybStoreAutoProcResultsAnom")
    /\ pc' = "storeJoinAnom"
    /\ UNCHANGED << policyVars, reqVars, rerunPasses, rangeVars, joined, reads, idVars, failVars,
                    ispybLog, markFailed, faults, cutoffVars >>
JoinStoreAnom ==
    JoinAt("storeJoinAnom", "ispybStoreAutoProcResultsAnom", "storeNoAnom")
StartStoreNoAnom ==
    /\ trackCalls' = trackCalls \cup { "storeAutoProcResults" }
    /\ pc = "storeNoAnom"
    /\ status' = [status EXCEPT !["ispybStoreAutoProcResultsNoAnom"] = "running"]
    /\ taskInData' = Given(taskInData, "ispybStoreAutoProcResultsNoAnom")
    /\ pc' = "storeJoinNoAnom"
    /\ UNCHANGED << policyVars, reqVars, rerunPasses, rangeVars, joined, reads, idVars, failVars,
                    ispybLog, markFailed, faults, cutoffVars >>
JoinStoreNoAnom ==
    JoinAt("storeJoinNoAnom", "ispybStoreAutoProcResultsNoAnom", "return")

\* ---- lines 867-875: the results of both branches go into outData, which
\* is returned
BranchResults == { "anomalousData", "nonAnomalousData" }

ReturnOutData ==
    /\ pc = "return"
    /\ outData' = BranchResults
    /\ pc' = "returned"
    /\ NoteStop
    /\ UNCHANGED << taskInData, policyVars, reqVars, rerunPasses, rangeVars, stageVars, idVars, trackVars,
                    faults, completenessEntries, firstResCutoff, anomResCutoff,
                    noAnomResCutoff, highAnomSignal >>

\* ------------------------------------------------------------------ run()
InitCtl ==
    /\ pc = "start"
    /\ onlineAutoProcessing \in BOOLEAN
    /\ hasDataCollectionId \in BOOLEAN
    /\ anomalous \in BOOLEAN
    /\ dataset \in ImageCounts
    /\ imageNoStart = 0
    /\ imageNoEnd = 0
    /\ status = [s \in Stages |-> "idle"]
    /\ joined = {}
    /\ reads = {}
    /\ idsAssigned = FALSE
    /\ integrationIdAnom = "None"
    /\ integrationIdNoAnom = "None"
    /\ integrationId = "unset"
    /\ isFailure = FALSE
    /\ errorLog = ""
    /\ stoppedAt = ""
    /\ ispybLog = << >>
    /\ trackCalls = {}
    /\ markFailed = [h \in Handles |-> 0]
    /\ faults = 0
    /\ completenessEntries = << >>
    /\ firstResCutoff = None
    /\ anomResCutoff = None
    /\ noAnomResCutoff = None
    /\ highAnomSignal = "unset"
    /\ outData = {}
    /\ rerunPasses = 0
    /\ taskInData = [s \in BranchTasks |-> NotCreated]

\* the controller at rest, for the specifications of the policies alone
CtlIdle ==
    /\ InitCtl
    /\ ~onlineAutoProcessing /\ ~hasDataCollectionId /\ ~anomalous
    /\ dataset = MinImages

NextCtl ==
    \/ OnlineNoDataCollectionId \/ FindDataCollection \/ FromMasterFile
    \/ ImageRangeGuard
    \/ StartWaitFileFirst \/ JoinWaitFileFirst
    \/ StartWaitFileLast \/ JoinWaitFileLast
    \/ CreateIntegrationIdAnom \/ CreateIntegrationIdNoAnom
    \/ SubWedgeGiven \/ StartSubWedgeAssembly \/ JoinSubWedgeAssembly
    \/ NumImagesGuard
    \/ LaunchIndexing \/ JoinIndexing
    \/ LaunchIntegration \/ JoinIntegration
    \/ FirstResCutoff
    \/ StartPointlessTask \/ JoinPointlessTask \/ BuildRerunData
    \/ StartRerunAnom \/ StartRerunNoAnom \/ JoinRerunAnom \/ JoinRerunNoAnom
    \/ CheckRerun \/ SecondResCutoff
    \/ LaunchXscale \/ StartXscaleMergenoAnom \/ StartXscaleUnmergeAnom
    \/ StartXscaleUnmergenoAnom
    \/ JoinXscaleMergeAnom \/ JoinXscaleMergenoAnom \/ JoinXscaleUnmergeAnom
    \/ JoinXscaleUnmergenoAnom \/ CheckXscale
    \/ BuildPointlessData
    \/ StartPointlessNoAnom \/ StartPointlessAnom
    \/ JoinPointlessNoAnom \/ JoinPointlessAnom
    \/ BuildAimlessData
    \/ StartAimlessAnom \/ StartAimlessNoanom
    \/ JoinAimlessAnom \/ JoinAimlessNoanom
    \/ EvaluateAnomalousSignal
    \/ StartXTriage \/ StartTruncateAnom \/ StartTruncateNoAnom
    \/ JoinTruncateAnom \/ JoinTruncateNoAnom
    \/ BuildUniqueifyData
    \/ StartUniqueifyAnom \/ StartUniqueifyNoAnom
    \/ JoinUniqueifyAnom \/ JoinUniqueifyNoAnom \/ JoinXTriage
    \/ CopyResults
    \/ StartStoreAnom \/ JoinStoreAnom \/ StartStoreNoAnom \/ JoinStoreNoAnom
    \/ ReturnOutData
    \/ StageFinish

\* ==================================================== Xia2DIALSTask (64-366)
Xia2AtRest ==
    [ pc |-> "start", hasMasterFilePath |-> FALSE, hasDataCollectionId |-> FALSE,
      doUploadIspyb |-> FALSE, rangeGiven |-> FALSE, numImages |-> MinImages,
      imageNoStart |-> 0, imageNoEnd |-> 0,
      idsAssigned |-> FALSE, integrationId |-> "None",
      isFailure |-> FALSE, events |-> << >>, markFailed |-> 0,
      outData |-> "unset" ]

Xia2Idle == xia2 = Xia2AtRest

\* lines 104-111: the fields of the request run() decides on, and the number
\* of images of the data collection
InitXia2 ==
    \E m, d, u, r \in BOOLEAN : \E n \in ImageCounts :
        xia2 = [Xia2AtRest EXCEPT !.hasMasterFilePath = m,
                                  !.hasDataCollectionId = d,
                                  !.doUploadIspyb = u, !.rangeGiven = r,
                                  !.numImages = n]

Xia2Others == << resVars, anomVars, allocVars, maxiv, pdb, ctlVars, pipe >>

\* logToIspyb (401-424): nothing is sent for an id that is None
Xia2LogToIspyb(x, st) ==
    IF x.integrationId = "None" THEN x
    ELSE [x EXCEPT !.events = Append(@, st)]

\* setFailure (64-78), then the return that follows each of its calls: with
\* doUploadIspyb it reads self.integrationId, which run() first assigns on
\* line 275, marks the handle failed and sends the event "Failed"
Xia2SetFailure(x) ==
    LET f == [x EXCEPT !.isFailure = TRUE] IN
    IF ~f.doUploadIspyb THEN [f EXCEPT !.pc = "returned"]
    ELSE IF ~f.idsAssigned THEN [f EXCEPT !.pc = "raised"]
    ELSE Xia2LogToIspyb(
             [f EXCEPT !.markFailed = IF f.integrationId = "None" THEN @ ELSE @ + 1,
                       !.pc = "returned"],
             "Failed")

\* lines 132-147: the master file, from the request or from the tracking
\* service
Xia2MasterFile ==
    /\ xia2.pc = "start"
    /\ \E found \in BOOLEAN :
          xia2' = IF xia2.hasMasterFilePath THEN [xia2 EXCEPT !.pc = "range"]
                  ELSE IF xia2.hasDataCollectionId /\ found
                  THEN [xia2 EXCEPT !.pc = "range"]
                  ELSE Xia2SetFailure(xia2)
    /\ UNCHANGED Xia2Others

\* lines 150-175: the image range, from the request, from the record of the
\* data collection or from the master file, and the test on it
Xia2ImageRange ==
    /\ xia2.pc = "range"
    /\ \E found \in BOOLEAN : \E s \in 1..MaxStart :
          LET first == IF xia2.rangeGiven THEN s
                       ELSE IF xia2.hasDataCollectionId /\ found THEN s
                       ELSE 1
              last == IF xia2.rangeGiven THEN xia2.numImages
                      ELSE OnlineImageNoEnd(first, xia2.numImages)
              x == [xia2 EXCEPT !.imageNoStart = first, !.imageNoEnd = last]
          IN  xia2' = IF RangeTooShort(first, last) THEN Xia2SetFailure(x)
                      ELSE [x EXCEPT !.pc = "waitFiles"]
    /\ UNCHANGED Xia2Others

\* lines 186-212: the waits for the image files; a timeout is a warning
Xia2WaitFiles ==
    /\ xia2.pc = "waitFiles"
    /\ xia2' = [xia2 EXCEPT !.pc = "setRunning"]
    /\ UNCHANGED Xia2Others

\* lines 273-283: with doUploadIspyb, the handle from setIspybToRunning,
\* which may be None
Xia2SetRunning ==
    /\ xia2.pc = "setRunning"
    /\ \E id \in { "id", "None" } :
          xia2' = IF xia2.doUploadIspyb
                  THEN [xia2 EXCEPT !.idsAssigned = TRUE, !.integrationId = id,
                                    !.pc = "launched"]
                  ELSE [xia2 EXCEPT !.pc = "launched"]
    /\ UNCHANGED Xia2Others

\* lines 285-288
Xia2Launched ==
    /\ xia2.pc = "launched"
    /\ xia2' = IF xia2.doUploadIspyb
               THEN Xia2LogToIspyb([xia2 EXCEPT !.pc = "exec"], "Launched")
               ELSE [xia2 EXCEPT !.pc = "exec"]
    /\ UNCHANGED Xia2Others

\* lines 290-296: xia2 itself
Xia2Exec ==
    /\ xia2.pc = "exec"
    /\ \E ok \in BOOLEAN :
          xia2' = IF ok THEN [xia2 EXCEPT !.pc = "json"] ELSE Xia2SetFailure(xia2)
    /\ UNCHANGED Xia2Others

\* lines 321-334: xia2.ispyb_json; without its file run() returns the empty
\* outData
Xia2Json ==
    /\ xia2.pc = "json"
    /\ \E ok \in BOOLEAN :
          xia2' = IF ok THEN [xia2 EXCEPT !.pc = "finish"]
                  ELSE [xia2 EXCEPT !.outData = "empty", !.pc = "returned"]
    /\ UNCHANGED Xia2Others

\* lines 336-366: the results, the event "Successful", the upload
Xia2Finish ==
    /\ xia2.pc = "finish"
    /\ xia2' = IF xia2.doUploadIspyb
               THEN Xia2LogToIspyb([xia2 EXCEPT !.outData = "container",
                                                !.pc = "returned"], "Successful")
               ELSE [xia2 EXCEPT !.outData = "container", !.pc = "returned"]
    /\ UNCHANGED Xia2Others

\* ============ AutoPROCTask.run (252-456) and FastdpTask.run (258-413)
PipeTasks == { "AutoPROCTask", "FastdpTask" }

\* the handles a task asks the tracking service for (AutoPROCTask 254-267,
\* FastdpTask 258-266)
PipeHandles(task) ==
    IF task = "AutoPROCTask" THEN { "integrationId", "integrationIdStaraniso" }
    ELSE { "integrationId" }

\* the files of the tool the task looks for (AutoPROCTask 299, 308;
\* FastdpTask 343, 355)
PipeOutputFiles(task) ==
    IF task = "AutoPROCTask" THEN { "autoPROC.xml", "autoPROC_staraniso.xml" }
    ELSE { "fast_dp.json", "aimless.log" }

\* the names the later lines read (AutoPROCTask 417-418, FastdpTask 455)
PipeNeeds(task) ==
    IF task = "AutoPROCTask"
    THEN { "autoProcContainer", "autoProcContainerStaraniso" }
    ELSE { "aimlessData" }

PipeAtRest ==
    [ pc |-> "start", task |-> "AutoPROCTask", upload |-> FALSE,
      ids |-> { }, toolOk |-> FALSE, present |-> { }, bound |-> { },
      isFailure |-> FALSE, failed |-> { }, outData |-> "unset" ]

PipeIdle == pipe = PipeAtRest

\* the task and doUploadIspyb (AutoPROCTask) or onlineAutoProcessing
\* (FastdpTask)
InitPipe ==
    \E t \in PipeTasks : \E u \in BOOLEAN :
        pipe = [PipeAtRest EXCEPT !.task = t, !.upload = u]

PipeOthers == << resVars, anomVars, allocVars, maxiv, pdb, xia2, ctlVars >>

\* setFailure (AutoPROCTask 84-114, FastdpTask 60-74), then the return that
\* follows each call: every handle that is not None is marked failed
PipeSetFailure(p) ==
    [p EXCEPT !.isFailure = TRUE,
              !.failed = IF p.upload THEN p.ids ELSE @,
              !.pc = "returned"]

\* AutoPROCTask 252-267, FastdpTask 258-266: the handles, each of which the
\* tracking service may give as None
PipeSetRunning ==
    /\ pipe.pc = "start"
    /\ \E got \in SUBSET PipeHandles(pipe.task) :
          pipe' = [pipe EXCEPT !.ids = IF pipe.upload THEN got ELSE { },
                               !.pc = "tool"]
    /\ UNCHANGED PipeOthers

\* AutoPROCTask 290-294, FastdpTask 320-330: the external tool; when it ends
\* well it has left some of its files
PipeExec ==
    /\ pipe.pc = "tool"
    /\ \E ok \in BOOLEAN : \E fs \in SUBSET PipeOutputFiles(pipe.task) :
          pipe' = IF ok THEN [pipe EXCEPT !.toolOk = TRUE, !.present = fs,
                                          !.pc = "outputs"]
                  ELSE PipeSetFailure(pipe)
    /\ UNCHANGED PipeOthers

\* AutoPROCTask 299-315: each container is assigned only under is_file();
\* FastdpTask 345-359: without fast_dp.json the task fails, and
\* self.aimlessData is assigned only under exists()
PipeOutputs ==
    /\ pipe.pc = "outputs"
    /\ pipe' =
          IF pipe.task = "AutoPROCTask"
          THEN [pipe EXCEPT
                  !.bound = (IF "autoPROC.xml" \in pipe.present
                             THEN { "autoProcContainer" } ELSE { })
                            \cup
                            (IF "autoPROC_staraniso.xml" \in pipe.present
                             THEN { "autoProcContainerStaraniso" } ELSE { }),
                  !.pc = "files"]
          ELSE IF "fast_dp.json" \notin pipe.present THEN PipeSetFailure(pipe)
          ELSE [pipe EXCEPT
                  !.bound = IF "aimless.log" \in pipe.present
                            THEN { "aimlessData" } ELSE { },
                  !.pc = "files"]
    /\ UNCHANGED PipeOthers

\* AutoPROCTask 316-415, FastdpTask 360-394: parsing and copying the other
\* files of the tool, outside any try
PipeCopyFiles ==
    /\ pipe.pc = "files"
    /\ \E ok \in BOOLEAN :
          pipe' = [pipe EXCEPT !.pc = IF ok THEN "results" ELSE "raised"]
    /\ UNCHANGED PipeOthers

\* AutoPROCTask 417-456, FastdpTask 396-413 with 455: the result is built
\* from the names assigned above; reading one that was never assigned raises
PipeResults ==
    /\ pipe.pc = "results"
    /\ pipe' = IF PipeNeeds(pipe.task) \subseteq pipe.bound
               THEN [pipe EXCEPT !.outData = "container", !.pc = "returned"]
               ELSE [pipe EXCEPT !.pc = "raised"]
    /\ UNCHANGED PipeOthers

\* ----------------------------------------------------------- specifications
ResIdle == entries = << >> /\ resCalled = FALSE /\ resCutoff = None
AnomIdle ==
    /\ aimlessLog = [readable |-> FALSE, lines |-> << >>]
    /\ threshold = DefaultThreshold
    /\ anomCalled = FALSE
    /\ anomOut = [ret |-> FALSE, raised |-> FALSE]

\* getResCutoff on every list of entries
NextRes == CallGetResCutoff /\ UNCHANGED << anomVars, allocVars, maxiv, ctlVars, pdb, xia2, pipe >>
InitResOnly == InitRes /\ AnomIdle /\ AllocIdle /\ MaxivIdle /\ PdbIdle /\ Xia2Idle /\ PipeIdle
    /\ CtlIdle
SpecRes == InitResOnly /\ [][NextRes]_vars

\* if_anomalous_signal on every log and threshold
NextAnom == CallIfAnomalousSignal /\ UNCHANGED << resVars, allocVars, maxiv, ctlVars, pdb, xia2, pipe >>
InitAnomOnly == InitAnom /\ ResIdle /\ AllocIdle /\ MaxivIdle /\ PdbIdle /\ Xia2Idle /\ PipeIdle
    /\ CtlIdle
SpecAnom == InitAnomOnly /\ [][NextAnom]_vars

\* the callers of AutoPROCExecTask.run under one working directory
NextAlloc ==
    \/ \E c \in Callers : AllocStart(c)
    \/ \E c \in Callers : AllocTest(c)
    \/ \E c \in Callers : ExecMakesDir(c)
InitAllocOnly == InitAlloc /\ ResIdle /\ AnomIdle /\ MaxivIdle /\ PdbIdle /\ Xia2Idle /\ PipeIdle
    /\ CtlIdle
SpecAlloc == InitAllocOnly /\ [][NextAlloc]_vars

\* one run of MAXIVAutoProcessingTask.run, with the tasks it starts
NextMaxiv ==
    \/ MaxivNoDataCollectionId \/ MaxivFindDataCollection
    \/ MaxivStartNext \/ MaxivJoinNext \/ MaxivReturn
    \/ MaxivTaskFinish
InitMaxivOnly == InitMaxiv /\ ResIdle /\ AnomIdle /\ AllocIdle /\ PdbIdle /\ Xia2Idle /\ PipeIdle
    /\ CtlIdle
SpecMaxiv == InitMaxivOnly /\ [][NextMaxiv]_vars

\* one call of fetchPdbFileFromAccessionCode
NextPdb ==
    \/ PdbEnter \/ PdbChdirTemp \/ PdbGet \/ PdbCopy \/ PdbExcept \/ PdbReturn
InitPdbOnly ==
    InitPdb /\ ResIdle /\ AnomIdle /\ AllocIdle /\ MaxivIdle /\ Xia2Idle /\ PipeIdle /\ CtlIdle
SpecPdb == InitPdbOnly /\ [][NextPdb]_vars

\* one run of Xia2DIALSTask.run
NextXia2 ==
    \/ Xia2MasterFile \/ Xia2ImageRange \/ Xia2WaitFiles \/ Xia2SetRunning
    \/ Xia2Launched \/ Xia2Exec \/ Xia2Json \/ Xia2Finish
InitXia2Only ==
    InitXia2 /\ ResIdle /\ AnomIdle /\ AllocIdle /\ MaxivIdle /\ PdbIdle /\ PipeIdle
    /\ CtlIdle
SpecXia2 == InitXia2Only /\ [][NextXia2]_vars

\* one run of AutoPROCTask.run or of FastdpTask.run, from the handles on
NextPipe ==
    \/ PipeSetRunning \/ PipeExec \/ PipeOutputs \/ PipeCopyFiles \/ PipeResults
InitPipeOnly ==
    InitPipe /\ ResIdle /\ AnomIdle /\ AllocIdle /\ MaxivIdle /\ PdbIdle /\ Xia2Idle
    /\ CtlIdle
SpecPipe == InitPipeOnly /\ [][NextPipe]_vars

\* one run of Edna2ProcTask.run, with the tasks it starts
Init ==
    InitCtl /\ ResIdle /\ AnomIdle /\ AllocIdle /\ MaxivIdle /\ PdbIdle /\ Xia2Idle /\ PipeIdle
Next == NextCtl
Spec == Init /\ [][Next]_vars

\* ------------------------------------------------------------------ claims
\* the resolutions of the flagged entries, read off the list directly
QualifyingRes(es) ==
    { es[i].res : i \in { k \in 1..Len(es) : es[k].include_res_based_on_cc } }

\* C1: whenever at least one entry is flagged, getResCutoff returns the
\* smallest resolution among the flagged entries: it is the resolution of a
\* flagged entry and no flagged entry has a smaller one; unflagged entries,
\* wherever they stand and whatever their resolution, play no part.
C1_MinOverFlagged ==
    (resCalled /\ QualifyingRes(entries) # {}) =>
        /\ Len(resCutoff) = 1
        /\ resCutoff[1] \in QualifyingRes(entries)
        /\ \A r \in QualifyingRes(entries) : resCutoff[1] <= r

\* a list whose smallest resolution belongs to an unflagged entry standing
\* after the flagged ones, the cutoff being the flagged minimum
C1_Witness ==
    /\ resCalled
    /\ Len(entries) = 3
    /\ entries[1].include_res_based_on_cc /\ entries[1].res = 3
    /\ entries[2].include_res_based_on_cc /\ entries[2].res = 2
    /\ ~entries[3].include_res_based_on_cc /\ entries[3].res = 1
    /\ resCutoff = Some(2)

\* ---- what the log says, read off the lines directly
TableLines(log) == { i \in 1..Len(log.lines) : log.lines[i].table }

SetMin(S) == CHOOSE m \in S : \A k \in S : m <= k

\* the first line at or after the table's title that holds "Overall"
OverallRows(log, t) == { j \in t..Len(log.lines) : log.lines[j].overall }

\* the log holds the table once, with an Overall row whose value parses
OneTableParsed(log) ==
    /\ log.readable
    /\ Cardinality(TableLines(log)) = 1
    /\ LET t == SetMin(TableLines(log))
       IN  /\ OverallRows(log, t) # {}
           /\ log.lines[SetMin(OverallRows(log, t))].f3 # None

OverallValue(log) ==
    LET t == SetMin(TableLines(log))
    IN  log.lines[SetMin(OverallRows(log, t))].f3[1]

\* nothing can be parsed: the log cannot be read, the table is missing, the
\* table has no Overall row, or the Overall value is no number
NoValueParsed(log) ==
    \/ ~log.readable
    \/ TableLines(log) = {}
    \/ LET t == SetMin(TableLines(log))
       IN  \/ OverallRows(log, t) = {}
           \/ log.lines[SetMin(OverallRows(log, t))].f3 = None

C4_AbsentForAnyThreshold ==
    (anomCalled /\ NoValueParsed(aimlessLog)) =>
        (anomOut.ret = FALSE /\ ~anomOut.raised)

\* the log is read but holds no table, the threshold is 0.0, and the answer
\* is True: cc_rcr is still 0.0 and 0.0 >= 0.0
C4_Witness ==
    /\ anomCalled
    /\ threshold = InitialCcRcr
    /\ aimlessLog.readable
    /\ TableLines(aimlessLog) = {}
    /\ anomOut = [ret |-> TRUE, raised |-> FALSE]

\* ---- the run, as the claims speak of it
Started(s) == status[s] # "idle"
TerminalFailure == pc \in Terminal /\ isFailure

\* where run() stands, or stood when it ended
Position == IF pc \in Terminal THEN stoppedAt ELSE pc

\* the labels of run() up to the first resolution cutoff
UpToFirstCutoff ==
    { "start", "manual", "guard", "waitFirst", "waitFirstJoin", "waitLast",
      "waitLastJoin", "createIdAnom", "createIdNoAnom", "subWedge",
      "subWedgeJoin", "numImages", "indexing", "indexingJoin", "integration",
      "integrationJoin", "firstCutoff" }

\* the first cutoff has been computed
FirstCutoffDone ==
    \/ Position \notin UpToFirstCutoff
    \/ pc \in Terminal /\ stoppedAt = "firstCutoff"

\* C2: when no completeness entry of the integration qualifies (the empty
\* list included), getResCutoff gives None and no number, the run has ended
\* in failure, and pointless was never started.
C2_NoQualifyingEntryEndsRun ==
    (FirstCutoffDone /\ QualifyingRes(completenessEntries) = {}) =>
        /\ firstResCutoff = None
        /\ pc = "returned"
        /\ isFailure
        /\ ~Started("pointlessTask")

\* integration reported entries, none of them flagged, and the run is over
C2_Witness ==
    /\ FirstCutoffDone
    /\ Len(completenessEntries) = 2
    /\ QualifyingRes(completenessEntries) = {}
    /\ status["integration"] = "ok"
    /\ TerminalFailure

\* ---- the guard of lines 231-235
RangeGuardRejected == errorLog = "There are fewer than 8 images, aborting"
RangeGuardAccepted ==
    /\ imageNoStart # 0
    /\ pc \notin { "start", "manual", "guard" }
    /\ ~RangeGuardRejected
ImagesInRange == imageNoEnd - imageNoStart + 1

\* C5 as stated: the guard accepts every range of at least 8 images and
\* rejects every range of fewer; a rejected request has ended in failure
\* with no stage started.
C5_GuardAcceptsEightImages ==
    /\ RangeGuardAccepted => ImagesInRange >= MinImages
    /\ RangeGuardRejected =>
          /\ ImagesInRange < MinImages
          /\ TerminalFailure
          /\ \A s \in Stages : ~Started(s)

\* a range of exactly 8 images, 1 to 8, is rejected
C5_Witness ==
    /\ RangeGuardRejected
    /\ imageNoStart = 1
    /\ imageNoEnd = MinImages
    /\ pc = "raised"

\* C6 as stated: in a run on a dataset of fewer than 8 images no stage is
\* ever started and no tracking-service call is ever made, and a run that
\* returns has reported failure.
C6_SmallDatasetStartsNothing ==
    dataset < MinImages =>
        /\ \A s \in Stages : ~Started(s)
        /\ trackCalls = {}
        /\ pc = "returned" => isFailure

\* a request that is not online names a range longer than its dataset of 6
\* images: the waits and the sub-wedge assembly ran and the tracking service
\* was asked for ids before the run ended on the count of line 337
C6_Witness ==
    /\ dataset < MinImages
    /\ ~onlineAutoProcessing
    /\ WaitStages \subseteq joined
    /\ "subWedgeAssembly" \in joined
    /\ "createIntegrationId" \in trackCalls
    /\ errorLog = "There are fewer than 8 images. Aborting."
    /\ pc = "returned"

\* ---- integration fails
IntegrationFailed == StageIsFailure("integration") /\ "integration" \in joined
AfterIntegration ==
    { "pointlessTask" } \cup RerunStages \cup XscaleStages \cup PointlessStages
    \cup AimlessStages \cup TruncateStages \cup UniqueifyStages
    \cup { "phenixXTriageTask" } \cup StoreStages
FailedEventFor(step) ==
    \E i \in 1..Len(ispybLog) : ispybLog[i][2] = step /\ ispybLog[i][3] = "Failed"

\* C7 as stated: once integration has failed the run has returned in
\* failure, a Failed event for step Integration has been reported, and
\* pointless, the reruns, XSCALE and aimless are never started.
C7_IntegrationFailureReported ==
    IntegrationFailed =>
        /\ pc = "returned" /\ isFailure
        /\ FailedEventFor("Integration")
        /\ \A s \in AfterIntegration : ~Started(s)

\* C7 amended: once integration has failed the run has returned in failure,
\* no later stage is ever started, and the Failed event for step Integration
\* has been reported exactly when a tracking handle exists to report it to.
C7_IntegrationFailureStopsRun ==
    IntegrationFailed =>
        /\ pc = "returned" /\ isFailure
        /\ errorLog = "Error at integration step. Stopping."
        /\ FailedEventFor("Integration") <=> (integrationId # "None")
        /\ \A s \in AfterIntegration : ~Started(s)

\* integration failed in a run that has a tracking handle
C7_Witness ==
    /\ IntegrationFailed
    /\ integrationId = "anom"
    /\ FailedEventFor("Integration")
    /\ status["indexing"] = "ok"
    /\ pc = "returned"

\* ---- the groups of stages, in the order run() starts them
GroupOf(s) ==
    IF s = "indexing" THEN 1
    ELSE IF s = "integration" THEN 2
    ELSE IF s = "pointlessTask" THEN 3
    ELSE IF s \in RerunStages THEN 4
    ELSE IF s \in XscaleStages THEN 5
    ELSE IF s \in PointlessStages THEN 6
    ELSE IF s \in AimlessStages THEN 7
    ELSE IF s \in TruncateStages \cup { "phenixXTriageTask" } THEN 8
    ELSE IF s \in UniqueifyStages THEN 9
    ELSE 0
ProcessingStages == { s \in Stages : GroupOf(s) > 0 }

\* C8 as stated: once a stage has failed and been joined, no stage of a
\* later group is ever started, and a run that returns has reported failure.
C8_AnyStageFailureStopsRun ==
    \A s \in ProcessingStages :
        (StageIsFailure(s) /\ s \in joined) =>
            /\ \A t \in ProcessingStages : GroupOf(t) > GroupOf(s) => ~Started(t)
            /\ pc = "returned" => isFailure

\* aimless failed on one branch and was joined; truncate, uniqueify and the
\* rest were started all the same and the run returned without failure
C8_Witness ==
    /\ StageIsFailure("aimlessTask_noanom")
    /\ "aimlessTask_noanom" \in joined
    /\ UniqueifyStages \subseteq joined
    /\ pc = "returned"
    /\ ~isFailure

\* C9: run() reads the outData of a stage, for itself or for the input of
\* a later stage, only when it has joined that stage; xtriage, started before
\* truncate and joined after uniqueify, is no exception.
C9_ReadOnlyAfterJoin == \A s \in reads : s \in joined

\* xtriage's outData has been read at the end of a run in which truncate and
\* uniqueify ran while xtriage was running
C9_Witness ==
    /\ "phenixXTriageTask" \in reads
    /\ UniqueifyStages \subseteq joined
    /\ pc = "returned"
    /\ ~isFailure

\* a task of the group is started only when all tasks of the group before
\* it have been joined
StartedOnlyAfter(group, before) ==
    (\E s \in group : Started(s)) => before \subseteq joined

\* C10: a group is started only when the group before it has been joined:
\* XSCALE after both reruns, the per-branch pointless tasks after the four
\* XSCALE tasks, aimless after both pointless tasks, truncate after both
\* aimless tasks, uniqueify after both truncate tasks.
C10_GroupsInOrder ==
    /\ StartedOnlyAfter(XscaleStages, RerunStages)
    /\ StartedOnlyAfter(PointlessStages, XscaleStages)
    /\ StartedOnlyAfter(AimlessStages, PointlessStages)
    /\ StartedOnlyAfter(TruncateStages, AimlessStages)
    /\ StartedOnlyAfter(UniqueifyStages, TruncateStages)

\* the first uniqueify task is running and the second is not yet started
C10_Witness ==
    /\ status["uniqueifyAnom"] = "running"
    /\ status["uniqueifyNoAnom"] = "idle"
    /\ TruncateStages \subseteq joined

\* ---- the concurrent groups: where run() stands from the first start() of
\* the group to its last join()
RerunLabels == { "rerunNoAnom", "rerunJoinAnom", "rerunJoinNoAnom" }
XscaleLabels ==
    { "xscaleMergenoAnom", "xscaleUnmergeAnom", "xscaleUnmergenoAnom",
      "xscaleJoin1", "xscaleJoin2", "xscaleJoin3", "xscaleJoin4" }

\* a task of the group was started and the group is not yet joined whole
GroupPending(group) ==
    (\E s \in group : Started(s)) /\ ~(group \subseteq joined)

\* the group's check comes after every join, whatever a sibling did, and
\* one failed sibling makes it fail
CheckedWhenAllJoined(group, labels, check, msg) ==
    /\ GroupPending(group) => (pc \in labels /\ ~isFailure)
    /\ errorLog = msg =>
          (group \subseteq joined /\ \A s \in group : status[s] \in Ended)
    /\ (group \subseteq joined /\ pc # check
        /\ \E s \in group : StageIsFailure(s)) =>
          (errorLog = msg /\ isFailure /\ pc = "returned")

\* C11: in the two concurrent groups that are checked (the CORRECT reruns,
\* the XSCALE tasks) the failure check comes only after every sibling has
\* been joined: while a sibling is unjoined run() is still in the group's
\* start/join sequence and has not failed, whatever the other siblings did;
\* and once all are joined, one failed sibling is enough for the run to be
\* marked failed by that group's check.
C11_GroupCheckedAfterAllJoins ==
    /\ CheckedWhenAllJoined(RerunStages, RerunLabels, "rerunCheck",
                            "Anom, noAnom rerun of CORRECT failed")
    /\ CheckedWhenAllJoined(XscaleStages, XscaleLabels, "xscaleCheck",
                            "XSCALE generation failed")

\* the first rerun failed, the second one ran to its end and was joined, and
\* the group was marked failed
C11_Witness ==
    /\ status["xdsRerun_anom"] = "failed"
    /\ status["xdsRerun_noAnom"] = "ok"
    /\ RerunStages \subseteq joined
    /\ errorLog = "Anom, noAnom rerun of CORRECT failed"
    /\ pc = "returned"

\* ---- the reruns of CORRECT
RerunsStarted == Cardinality({ s \in RerunStages : Started(s) })

\* the rerun group is over: a rerun was joined and run() has left the group
RerunGroupOver == RerunStages \cap joined # {} /\ pc \notin RerunLabels

\* C12 as stated: CORRECT is rerun twice exactly when both treatments are
\* requested (doAnom and doNoAnom), and once otherwise.
C12_RerunTwiceIffBothRequested ==
    /\ ~(doAnom /\ doNoAnom) => RerunsStarted <= 1
    /\ RerunGroupOver =>
          RerunsStarted = IF doAnom /\ doNoAnom THEN 2 ELSE 1

\* a request with anomalous false: both reruns were started, ran and were
\* joined
C12_Witness ==
    /\ ~anomalous
    /\ status["xdsRerun_anom"] = "ok"
    /\ status["xdsRerun_noAnom"] = "ok"
    /\ RerunStages \subseteq joined

\* ---- the two branches of the rerun and scaling groups
BranchStages(h) ==
    IF h = "anom"
    THEN { "xdsRerun_anom", "xscaleTask_mergeAnom", "xscaleTask_unmergeAnom",
           "aimlessTask_anom" }
    ELSE { "xdsRerun_noAnom", "xscaleTask_mergenoAnom",
           "xscaleTask_unmergenoAnom", "aimlessTask_noanom" }
BranchesRun == { h \in Handles : \E s \in BranchStages(h) : Started(s) }

\* the run went through to its end without failure
Completed == pc = "returned" /\ ~isFailure

\* C13 as stated: a completed run of a request with anomalous false whose
\* anomalous signal was found below the threshold has run one scaling branch
\* only and holds one branch in its result.
C13_OneBranchWithoutSignal ==
    (Completed /\ ~anomalous /\ highAnomSignal = "False") =>
        /\ Cardinality(BranchesRun) = 1
        /\ Cardinality(outData) = 1

\* such a run, every stage having succeeded: both branches were run and both
\* are in the result
C13_Witness ==
    /\ Completed /\ ~anomalous /\ highAnomSignal = "False"
    /\ \A s \in Stages : status[s] = "ok"
    /\ BranchesRun = Handles
    /\ outData = BranchResults

\* ---- the stages that analyse the scaled data
AnalysisStages ==
    { "phenixXTriageTask" } \cup TruncateStages \cup UniqueifyStages

\* C14 as stated: in a run of a request with anomalous false whose anomalous
\* signal was found at or above the threshold, the rerun group has been run a
\* second time by the time an analysis stage is started, and so it has in
\* the completed run.
C14_SecondPassOnSignal ==
    (~anomalous /\ highAnomSignal = "True") =>
        /\ (\E s \in AnalysisStages : Started(s)) => rerunPasses = 2
        /\ Completed => rerunPasses = 2

\* the signal was found present in a run of a request with anomalous false;
\* xtriage was started next, the run completed, and the reruns ran once
C14_Witness ==
    /\ ~anomalous /\ highAnomSignal = "True"
    /\ Completed
    /\ \A s \in Stages : status[s] = "ok"
    /\ rerunPasses = 1

\* ---- status events
\* this step sent an event
EventSent == Len(ispybLog') = Len(ispybLog) + 1
SentEvent == ispybLog'[Len(ispybLog')]

BothHandles == HandleCreated("anom") /\ HandleCreated("noanom")

\* the events sent to a handle, as << step, status >>
EventsTo(h) ==
    { << ispybLog[i][2], ispybLog[i][3] >> :
        i \in { k \in 1..Len(ispybLog) : ispybLog[k][1] = h } }

\* C16 as stated: when both handles exist, every event run() has reported
\* has gone to both of them.
C16_EventsToBothHandles ==
    BothHandles => EventsTo("anom") = EventsTo("noanom")

\* a completed run with both handles: all its events went to the anomalous
\* handle and none to the other
C16_Witness ==
    /\ BothHandles
    /\ Completed
    /\ << "Scaling", "Successful" >> \in EventsTo("anom")
    /\ EventsTo("noanom") = {}

\* ---- runs that end in failure once the handles were asked for
\* run() is over and did not come to a good end: setFailure() was called, or
\* an exception left run()
FailedRun == pc \in Terminal /\ (isFailure \/ pc = "raised")

CutoffMessages ==
    { "No bins with CC1/2 greater than 30%",
      "Error in determining resolution after CORRECT rerun." }

\* a stage that was joined had failed, or a resolution cutoff gave None
StageOrCutoffFailure ==
    \/ \E s \in joined \cap ProcessingStages : StageIsFailure(s)
    \/ errorLog \in CutoffMessages

GroupsStarted == { GroupOf(s) : s \in { t \in ProcessingStages : Started(t) } }

\* the groups that are over: a later group was started, or run() returned
GroupsOver ==
    { g \in GroupsStarted :
        (\E k \in GroupsStarted : k > g) \/ pc = "returned" }

EventsWith(statuses) ==
    Cardinality({ i \in 1..Len(ispybLog) : ispybLog[i][3] \in statuses })

\* run() has a handle to report to
HasHandle == integrationId \in Handles

\* C18 as stated: in a run that has a handle, every group that was started
\* has had its Launched event, and every group that is over has had one
\* Successful or Failed event.
C18_EventsAroundEveryGroup ==
    HasHandle =>
        /\ EventsWith({ "Launched" }) = Cardinality(GroupsStarted)
        /\ EventsWith({ "Successful", "Failed" }) >= Cardinality(GroupsOver)
        /\ EventsWith({ "Successful", "Failed" }) <= Cardinality(GroupsStarted)

\* a completed run with a handle in which every stage succeeded: nine groups
\* were run, three Launched events and five Successful events were sent
C18_Witness ==
    /\ HasHandle
    /\ Completed
    /\ \A s \in Stages : status[s] = "ok"
    /\ Cardinality(GroupsStarted) = 9
    /\ EventsWith({ "Launched" }) = 3
    /\ EventsWith({ "Successful" }) = 5

\* ---- handles that could not be created
CreateLabels == { "createIdAnom", "createIdNoAnom" }

\* C19 as stated: run() never ends where it asks for a handle, and a handle
\* that was not created gets no status event and no setIspybToFailed.
C19_HandleFailureIgnored ==
    /\ pc \in Terminal => stoppedAt \notin CreateLabels
    /\ \A h \in Handles :
          (idsAssigned /\ ~HandleCreated(h)) =>
              (EventsTo(h) = {} /\ markFailed[h] = 0)

\* the tracking service was asked for the anomalous handle of a data
\* collection, createIntegrationId raised, and so did run()
C19_Witness ==
    /\ hasDataCollectionId
    /\ pc = "raised"
    /\ stoppedAt = "createIdAnom"
    /\ integrationIdAnom = "None"
    /\ \A s \in Stages : s \notin WaitStages => ~Started(s)

\* ---- failures of the tracking service
\* the steps of run() that only follow on a failed tracking-service call or
\* are such a call: the fallback after a failed lookup, the handle creation
AfterTrackingFailure == { "manual" } \cup CreateLabels

\* an upload of results failed and no stage of the processing did
OnlyUploadFailed ==
    /\ \E s \in StoreStages \cap joined : StageIsFailure(s)
    /\ \A s \in Stages \ StoreStages : ~StageIsFailure(s)

\* C20 as stated: run() never ends on a step it is at because a tracking
\* call failed, a lost status event leaves the next step as it is, and a run
\* whose upload failed still returns without failure.
C20_TrackingFailureNeverStops ==
    /\ pc \in Terminal => stoppedAt \notin AfterTrackingFailure
    /\ (OnlyUploadFailed /\ pc \in Terminal) => Completed

\* an online request: the lookup of the data collection failed, the request
\* held no master file to fall back on, and the run ended in failure
C20_Witness ==
    /\ onlineAutoProcessing
    /\ "findDataCollection" \in trackCalls
    /\ stoppedAt = "manual"
    /\ isFailure
    /\ errorLog = "No dataCollectionId or masterFilePath"

\* ---- the final result
\* what the result of a failed run is to carry
FailureReport == { "stageName", "reason" }

\* C21 as stated: every run ends by returning a result; a run that failed
\* returns one that names the stage it stopped at and the reason, a run that
\* did not fail returns the results of the branches.
C21_FinalResultReportsStop ==
    pc \in Terminal =>
        /\ pc = "returned"
        /\ IF isFailure THEN FailureReport \subseteq outData
                        ELSE outData = BranchResults

\* the integration failed: run() logged the reason, called setFailure() and
\* returned nothing
C21_Witness ==
    /\ pc = "returned"
    /\ isFailure
    /\ stoppedAt = "integrationJoin"
    /\ errorLog = "Error at integration step. Stopping."
    /\ outData = {}

\* ---- timeouts
\* the wait for a file was joined and its outData["timedOut"] is true
TimedOut(s) == s \in joined /\ status[s] = "timedOut"

\* the stages run() creates after the wait s
StagesAfterWait(s) ==
    IF s = "waitFileFirst" THEN Stages \ { s } ELSE Stages \ WaitStages

\* C22 as stated: once a wait for an image file has timed out, the run is
\* over and failed, and no stage that comes after the wait was started.
C22_TimeoutIsStageFailure ==
    \A s \in WaitStages :
        TimedOut(s) =>
            /\ pc = "returned" /\ isFailure
            /\ \A t \in StagesAfterWait(s) : ~Started(t)

\* the wait for the last image timed out and the indexing was started all
\* the same, the run not having failed
C22_Witness ==
    /\ TimedOut("waitFileLast")
    /\ status["waitFileFirst"] = "ok"
    /\ Started("indexing")
    /\ ~isFailure

\* ---- the working directory of AutoPROCExecTask
\* callers that have begun to choose, and those that hold a directory
Begun == { c \in Callers : alloc[c].pc # "idle" }
Holding == { c \in Callers : alloc[c].pc \in { "chosen", "made" } }

\* C23 as stated: no two callers under the same working directory are ever
\* given the same AutoPROCExec_k.
C23_NoTwoCallersSameDirectory ==
    \A c, d \in Holding : c # d => alloc[c].dir # alloc[d].dir

\* two callers both found AutoPROCExec_0 missing before either run had made
\* it, and both hold it
C23_Witness ==
    /\ 0 \notin dirs
    /\ \E c, d \in Holding :
           c # d /\ alloc[c].dir = 0 /\ alloc[d].dir = 0
                 /\ alloc[c].pc = "chosen" /\ alloc[d].pc = "chosen"

\* C24: a caller alone under its working directory is given AutoPROCExec_k
\* for the smallest k >= 0 that is no directory there; k is 0 when
\* AutoPROCExec_0 is none.
C24_SmallestFreeSuffix ==
    \A c \in Callers :
        (Begun = { c } /\ alloc[c].pc = "chosen") =>
            /\ alloc[c].dir \notin dirs
            /\ \A j \in 0..(alloc[c].dir - 1) : j \in dirs
            /\ 0 \notin dirs => alloc[c].dir = 0

\* every suffix below MaxDirs is taken and the one caller is given the next
C24_Witness ==
    \E c \in Callers :
        /\ Begun = { c }
        /\ alloc[c].pc = "chosen"
        /\ dirs = 0..(MaxDirs - 1)
        /\ alloc[c].dir = MaxDirs

\* ---- what the analysis of the scaled data waits for
\* the stages of steps 5 to 7: the reruns of CORRECT, XSCALE, and pointless
\* and aimless on each branch
ScalingStages ==
    RerunStages \cup XscaleStages \cup PointlessStages \cup AimlessStages

\* C25 as stated: a stage of the analysis (xtriage, truncate, uniqueify) is
\* started only when both reruns succeeded, both second resolution cutoffs
\* were found, and every scaling and merging stage of both branches succeeded.
C25_AnalysisOnlyAfterBothBranches ==
    (\E s \in AnalysisStages : Started(s)) =>
        /\ \A s \in ScalingStages : status[s] = "ok"
        /\ anomResCutoff # None /\ noAnomResCutoff # None

\* aimless failed on the anomalous branch, leaving its outData, and run()
\* started xtriage and truncate; up to XSCALE every check of run() had passed
C25_Witness ==
    /\ StageIsFailure("aimlessTask_anom")
    /\ \A s \in RerunStages \cup XscaleStages : status[s] = "ok"
    /\ anomResCutoff # None /\ noAnomResCutoff # None
    /\ Started("phenixXTriageTask")
    /\ Started("truncateAnom")
    /\ ~isFailure

\* ---- failures of the request
\* what run() logs when it turns a request down (lines 166, 190, 199, 232)
PreconditionMessages ==
    { "No dataCollectionId", "No dataCollectionId or masterFilePath",
      "File template not found", "There are fewer than 8 images, aborting" }

\* C26 as stated: when the request is turned down, setFailure() comes back
\* and run() returns with the failure set, no identifier of the tracking
\* service having been assigned and no stage started.
C26_PreconditionFailureReturns ==
    (isFailure /\ errorLog \in PreconditionMessages) =>
        /\ pc = "returned"
        /\ ~idsAssigned
        /\ \A s \in Stages : ~Started(s)

\* the master file's name does not fit the template: setFailure() was
\* called with the id attributes not yet there, and run() ended by raising
C26_Witness ==
    /\ errorLog = "File template not found"
    /\ isFailure
    /\ ~idsAssigned
    /\ \A s \in Stages : ~Started(s)
    /\ pc = "raised"

\* ---- no stage is run again
\* C27: no stage is ever started a second time: a stage that is started was
\* idle until then, and a stage that has ended, well or badly, stays as it
\* ended.
C27_NoStageStartedTwice ==
    [][\A s \in Stages :
          /\ (status'[s] = "running" /\ status[s] # "running")
                 => status[s] = "idle"
          /\ status[s] \in Ended => status'[s] = status[s]]_vars

\* the indexing failed and the run ended at its join
C27_Witness ==
    /\ StageIsFailure("indexing")
    /\ "indexing" \in joined
    /\ pc = "returned"
    /\ stoppedAt = "indexingJoin"
    /\ \A s \in Stages \ { "indexing" } : status[s] \in { "idle", "ok", "timedOut" }

\* ---- the four pipelines of MAXIVAutoProcessingTask
MaxivEnded(t) == maxiv.status[t] \notin { "idle", "running" }
HighAnomReported ==
    \E t \in { "edna2ProcTask", "fastDpTask" } : maxiv.status[t] = "okHighAnom"

\* C28 as stated: a run that passed its tests of the request and has
\* returned has run EDNA2proc and fast_dp to their ends and, after them,
\* autoPROC and xia2/DIALS, with anomalous set as either of the first two
\* reported a high anomalous signal.
C28_FourPipelinesRun ==
    (maxiv.pc = "returned" /\ ~maxiv.isFailure) =>
        /\ MaxivEnded("edna2ProcTask") /\ MaxivEnded("fastDpTask")
        /\ \A t \in LaterTasks : MaxivEnded(t)
        /\ maxiv.anomalous <=> HighAnomReported

\* EDNA2proc reported a high anomalous signal, the three tasks were joined
\* and run() returned: autoPROC and xia2/DIALS were never started
C28_Witness ==
    /\ maxiv.pc = "returned" /\ ~maxiv.isFailure
    /\ maxiv.joined = Len(StartOrder)
    /\ maxiv.status["edna2ProcTask"] = "okHighAnom"
    /\ ~maxiv.anomalous
    /\ \A t \in LaterTasks : maxiv.status[t] = "idle"

\* ---- the treatment each rerun is given
\* C29 as stated: the rerun created as the anomalous one is started with
\* isAnom true and the one created as the non-anomalous one with isAnom
\* false.
C29_RerunsGivenBothTreatments ==
    /\ Started("xdsRerun_anom") => taskInData["xdsRerun_anom"].isAnom = "True"
    /\ Started("xdsRerun_noAnom") =>
           taskInData["xdsRerun_noAnom"].isAnom = "False"

\* both reruns ran to their ends on inData whose isAnom is false
C29_Witness ==
    /\ RerunStages \subseteq joined
    /\ \A s \in RerunStages : status[s] = "ok" /\ taskInData[s].isAnom = "False"

\* ---- the two branches kept apart
\* the branch a task belongs to by the name run() gives it
AnomTasks ==
    { "xdsRerun_anom", "xscaleTask_mergeAnom", "xscaleTask_unmergeAnom",
      "pointlessTaskAnom", "aimlessTask_anom", "truncateAnom", "uniqueifyAnom" }
OtherBranch(s) == IF s \in AnomTasks THEN BranchTasks \ AnomTasks ELSE AnomTasks

\* C30 as stated: no task of a branch that comes after the reruns is created
\* with an artifact that a task of the other branch produced.
C30_BranchesIsolated ==
    \A s \in BranchTasks \ RerunStages :
        Started(s) => taskInData[s].inputs \cap OtherBranch(s) = {}

\* pointless and truncate of the non-anomalous branch were run on the
\* output of the anomalous rerun and of the anomalous aimless
C30_Witness ==
    /\ "pointlessTaskNoAnom" \in joined
    /\ "xdsRerun_anom" \in taskInData["pointlessTaskNoAnom"].inputs
    /\ "truncateNoAnom" \in joined
    /\ taskInData["truncateNoAnom"].inputs = { "aimlessTask_anom" }

\* ---- how run() ends
\* the stages that were started and not joined
Unjoined == { s \in Stages : Started(s) /\ s \notin joined }

\* C31 as stated: run() ends by returning, never otherwise, and when it has
\* ended, by a return or not, every stage it started has been joined.
C31_EndsReturnedAllJoined ==
    pc \in Terminal => (pc = "returned" /\ Unjoined = {})

\* truncate failed and left no outData: reading it for uniqueify raised
\* KeyError out of run() while xtriage, started before truncate, was not
\* joined
C31_Witness ==
    /\ pc = "raised"
    /\ stoppedAt = "uniqueifyData"
    /\ \E s \in TruncateStages : status[s] = "failedNoOut"
    /\ Unjoined = { "phenixXTriageTask" }

\* ---- how often a handle is marked failed
\* C35 as stated: in a run that ended in failure setIspybToFailed was called
\* at most once for each handle.
C35_MarkedFailedAtMostOnce ==
    FailedRun => \A h \in Handles : markFailed[h] <= 1

\* a second resolution cutoff was not found: run() called setFailure()
\* before and after the event, and a handle was marked failed twice
C35_Witness ==
    /\ pc = "returned" /\ isFailure
    /\ stoppedAt = "secondCutoff"
    /\ errorLog = "Error in determining resolution after CORRECT rerun."
    /\ \E h \in Handles : HandleCreated(h) /\ markFailed[h] = 2

\* ---- the image range of an online run
\* the range was taken from the record of the data collection: the run is
\* online, the lookup did not fail, and run() stands at the test of line 231
RangeFromRecord == onlineAutoProcessing /\ pc = "guard" /\ faults = 0

\* C34 as stated: for a record with start image S and N images the range
\* derived runs over N images: imageNoEnd = S + N - 1.
C34_RangeSpansAllImages ==
    RangeFromRecord => imageNoEnd = imageNoStart + dataset - 1

\* the record says start image 2 and 9 images: the range derived is 2..8
C34_Witness ==
    /\ RangeFromRecord
    /\ imageNoStart = 2
    /\ dataset = MinImages + 1
    /\ imageNoEnd = MinImages

\* ---- fetchPdbFileFromAccessionCode and the working directory
\* C36: when the call has returned, the working directory of the process is
\* the one the call was made in; after the download and the copy the value
\* returned is targetDirectory / <name of the file>, a file that is there;
\* after a failure of either it is None.
C36_WorkingDirectoryRestored ==
    pdb.pc = "returned" =>
        /\ pdb.processCwd = pdb.calledIn
        /\ IF pdb.copied
           THEN /\ pdb.ret = Append(pdb.targetDirectory, PdbFileName(pdb.pdbCode))
                /\ pdb.ret \in pdb.files
           ELSE pdb.ret = "None"

\* the download went well and the copy failed: None is returned from the
\* directory the call was made in, the temporary directory gone
C36_Witness ==
    /\ pdb.pc = "returned"
    /\ pdb.pdbPath # << >> /\ ~pdb.copied
    /\ pdb.ret = "None"
    /\ pdb.tempdir = "removed"
    /\ pdb.processCwd = pdb.calledIn
    /\ pdb.calledIn # pdb.targetDirectory

\* ---- the events of Xia2DIALSTask
Xia2Terminal ==
    { i \in 1..Len(xia2.events) : xia2.events[i] \in { "Successful", "Failed" } }
Xia2LaunchedSent == \E i \in 1..Len(xia2.events) : xia2.events[i] = "Launched"

\* C32 as stated: a run that uploads, has sent "Launched" for its handle and
\* has returned has sent exactly one of "Successful" and "Failed" for it.
C32_OneTerminalStatusAfterLaunched ==
    (xia2.doUploadIspyb /\ Xia2LaunchedSent /\ xia2.pc = "returned") =>
        Cardinality(Xia2Terminal) = 1

\* xia2 ran, xia2.ispyb_json gave no file: run() returned the empty outData
\* with "Launched" the only event sent
C32_Witness ==
    /\ xia2.pc = "returned"
    /\ xia2.doUploadIspyb /\ xia2.integrationId = "id"
    /\ xia2.events = << "Launched" >>
    /\ xia2.outData = "empty"
    /\ ~xia2.isFailure
    /\ xia2.markFailed = 0

\* ---- AutoPROCTask and FastdpTask without an expected file
PipeEnded == pipe.pc \in { "returned", "raised" }
PipeExpected(task) ==
    IF task = "AutoPROCTask" THEN PipeOutputFiles(task) ELSE { "aimless.log" }
PipeOutputMissing ==
    /\ pipe.toolOk
    /\ ~(PipeExpected(pipe.task) \subseteq pipe.present)
    /\ (pipe.task = "FastdpTask" => "fast_dp.json" \in pipe.present)

\* C33 as stated: when the tool ended well and autoPROC.xml or
\* autoPROC_staraniso.xml (AutoPROCTask) or aimless.log (FastdpTask) is
\* missing, the run ends by returning in failure with every handle it holds
\* marked failed.
C33_MissingOutputIsTerminalFailure ==
    (PipeEnded /\ PipeOutputMissing) =>
        /\ pipe.pc = "returned"
        /\ pipe.isFailure
        /\ pipe.failed = pipe.ids

\* the tool ended well, an expected file is missing, the other files were
\* copied: the run ended on the read of a name never assigned, not in
\* failure, with handles it holds left unmarked
C33_Witness ==
    /\ pipe.pc = "raised"
    /\ PipeOutputMissing
    /\ ~(PipeNeeds(pipe.task) \subseteq pipe.bound)
    /\ pipe.upload /\ pipe.ids # { }
    /\ pipe.failed = { }
    /\ ~pipe.isFailure

====
